---- MODULE Spec2Model ----
(***************************************************************************)
(* Peer-to-peer Reversi: the rules engine, the wire codec, the session     *)
(* driver (run_network_game) over a line transport, and the UDP discovery  *)
(* / role election (discover_and_connect).                                 *)
(*                                                                         *)
(* A text line is a sequence of one-character strings; the element "0xFF"  *)
(* stands for a byte that is not valid UTF-8 and the element "U+0663" for  *)
(* the character ARABIC-INDIC DIGIT THREE.                                 *)
(***************************************************************************)
EXTENDS Integers, Sequences, FiniteSets, TLC

(***************************************************************************)
(* Bounds of the model.                                                    *)
(***************************************************************************)
\* The UI may pick the first or the last legal move while move_num is at
\* most MaxFreePlies; afterwards it picks the first legal move.
MaxFreePlies == 2
\* Number of lines a misbehaving peer may write into the stream.
MaxRogueLines == 1
\* attempt[p] numbers the iterations of the matchmaking loop; iterations from
\* MaxAttempts on share one number.
MaxAttempts == 1
\* The wait window of the active phase, in clock ticks.
WindowTicks == 2
\* Datagrams a UDP socket buffers; one arriving at a full buffer is dropped.
MaxQueue == 2
\* Lines written to the byte-level stream.
MaxLines == 2
\* Moves applied to a starting board before the rules are queried on it.
MaxPlies == 2

(***************************************************************************)
(* game/board.py                                                           *)
(***************************************************************************)
EMPTY == "."
BLACK == "B"
WHITE == "W"
SIZE == 8

Cells == (0..(SIZE - 1)) \X (0..(SIZE - 1))

opponent(player) == IF player = BLACK THEN WHITE ELSE BLACK

in_bounds(r, c) == 0 <= r /\ r < SIZE /\ 0 <= c /\ c < SIZE

mid == SIZE \div 2

\* A board is its grid: a tuple of SIZE rows, each a tuple of SIZE cells.
\* Board.cell(r, c), for coordinates in bounds (0-based).
cell(board, r, c) == board[r + 1][c + 1]

\* Board.from_rows: the rows copied into an immutable grid.
from_rows(rows) ==
  [r \in 1..SIZE |-> [c \in 1..SIZE |-> rows[r][c]]]

\* The starting position with the two colours exchanged.
initial_cell_exchanged(r, c) ==
  IF (r = mid - 1 /\ c = mid - 1) \/ (r = mid /\ c = mid) THEN BLACK
  ELSE IF (r = mid - 1 /\ c = mid) \/ (r = mid /\ c = mid - 1) THEN WHITE
  ELSE EMPTY

initial_cell(r, c) ==
  IF (r = mid - 1 /\ c = mid - 1) \/ (r = mid /\ c = mid) THEN WHITE
  ELSE IF (r = mid - 1 /\ c = mid) \/ (r = mid /\ c = mid - 1) THEN BLACK
  ELSE EMPTY

initial ==
  from_rows([r \in 1..SIZE |-> [c \in 1..SIZE |-> initial_cell(r - 1, c - 1)]])

count(board, player) ==
  Cardinality({rc \in Cells : cell(board, rc[1], rc[2]) = player})

counts(board) ==
  LET b == count(board, BLACK)
      w == count(board, WHITE)
  IN  <<b, w, SIZE * SIZE - (b + w)>>

(***************************************************************************)
(* game/rules.py                                                           *)
(***************************************************************************)
DIRS == << <<-1, 0>>, <<-1, 1>>, <<0, 1>>, <<1, 1>>,
           <<1, 0>>, <<1, -1>>, <<0, -1>>, <<-1, -1>> >>

DirSet == {DIRS[i] : i \in 1..Len(DIRS)}

\* _line_flips that takes the stone next to the target only.
line_flips_first(board, player, r, c, dr, dc) ==
  IF ~in_bounds(r + dr, c + dc) THEN {}
  ELSE IF cell(board, r + dr, c + dc) # opponent(player) THEN {}
  ELSE IF ~in_bounds(r + 2 * dr, c + 2 * dc) THEN {}
  ELSE IF cell(board, r + 2 * dr, c + 2 * dc) # player THEN {}
  ELSE {<<r + dr, c + dc>>}

\* The while loop of _line_flips: collect opponent stones until an own stone
\* closes the run; an Empty cell or the edge of the board gives no flips.
RECURSIVE line_walk(_, _, _, _, _, _, _)
line_walk(board, player, rr, cc, dr, dc, flips) ==
  IF ~in_bounds(rr, cc) THEN {}
  ELSE IF cell(board, rr, cc) = opponent(player)
       THEN line_walk(board, player, rr + dr, cc + dc, dr, dc,
                      flips \cup {<<rr, cc>>})
       ELSE IF cell(board, rr, cc) = player THEN flips ELSE {}

line_flips(board, player, r, c, dr, dc) ==
  IF ~in_bounds(r + dr, c + dc) THEN {}
  ELSE IF cell(board, r + dr, c + dc) # opponent(player) THEN {}
       ELSE line_walk(board, player, r + dr, c + dc, dr, dc, {})

flips_for_move(board, player, r, c) ==
  IF ~in_bounds(r, c) THEN {}
  ELSE IF cell(board, r, c) # EMPTY THEN {}
       ELSE UNION {line_flips(board, player, r, c, d[1], d[2]) : d \in DirSet}

\* The pruning of valid_moves looking at four of the eight directions.
adj_candidates_half(board, player) ==
  {n \in Cells :
     /\ cell(board, n[1], n[2]) = EMPTY
     /\ \E i \in 1..4 :
          /\ in_bounds(n[1] - DIRS[i][1], n[2] - DIRS[i][2])
          /\ cell(board, n[1] - DIRS[i][1], n[2] - DIRS[i][2]) = opponent(player)}

\* Empty cells next to at least one opponent stone (the pruning of valid_moves).
adj_candidates(board, player) ==
  {n \in Cells :
     /\ cell(board, n[1], n[2]) = EMPTY
     /\ \E d \in DirSet :
          /\ in_bounds(n[1] - d[1], n[2] - d[2])
          /\ cell(board, n[1] - d[1], n[2] - d[2]) = opponent(player)}

\* list.sort() on (row, col) pairs: row-major order.
RowMajor == [i \in 1..(SIZE * SIZE) |-> <<(i - 1) \div SIZE, (i - 1) % SIZE>>]

sorted(S) == SelectSeq(RowMajor, LAMBDA x : x \in S)

valid_moves(board, player) ==
  sorted({n \in adj_candidates(board, player) :
            flips_for_move(board, player, n[1], n[2]) # {}})

\* apply_move keeping the other cells of the rows of flipped stones empty.
apply_move_clearing(board, player, r, c) ==
  LET flips == flips_for_move(board, player, r, c)
  IN  IF flips = {}
      THEN [ok |-> FALSE, board |-> board]
      ELSE LET rows == [rr \in 1..SIZE |-> [cc \in 1..SIZE |->
                          IF (rr - 1 = r /\ cc - 1 = c) \/ <<rr - 1, cc - 1>> \in flips
                          THEN player
                          ELSE IF \E f \in flips : f[1] = rr - 1 THEN EMPTY
                          ELSE cell(board, rr - 1, cc - 1)]]
           IN  [ok |-> TRUE, board |-> from_rows(rows)]

\* apply_move without the legality check: the stone is placed on any cell in
\* bounds.
apply_move_unchecked(board, player, r, c) ==
  LET flips == flips_for_move(board, player, r, c)
  IN  IF ~in_bounds(r, c)
      THEN [ok |-> FALSE, board |-> board]
      ELSE LET rows == [rr \in 1..SIZE |-> [cc \in 1..SIZE |->
                          IF (rr - 1 = r /\ cc - 1 = c) \/ <<rr - 1, cc - 1>> \in flips
                          THEN player
                          ELSE cell(board, rr - 1, cc - 1)]]
           IN  [ok |-> TRUE, board |-> from_rows(rows)]

\* apply_move: ok = FALSE stands for IllegalMoveError.
apply_move(board, player, r, c) ==
  LET flips == flips_for_move(board, player, r, c)
  IN  IF flips = {}
      THEN [ok |-> FALSE, board |-> board]
      ELSE LET rows == [rr \in 1..SIZE |-> [cc \in 1..SIZE |->
                          IF (rr - 1 = r /\ cc - 1 = c) \/ <<rr - 1, cc - 1>> \in flips
                          THEN player
                          ELSE cell(board, rr - 1, cc - 1)]]
           IN  [ok |-> TRUE, board |-> from_rows(rows)]

has_any_move(board, player) == Len(valid_moves(board, player)) > 0

\* is_game_over that asks about one colour only.
is_game_over_white_only(board) ==
  IF counts(board)[3] = 0 THEN TRUE
  ELSE ~has_any_move(board, WHITE)

is_game_over(board) ==
  IF counts(board)[3] = 0 THEN TRUE
  ELSE ~(has_any_move(board, BLACK) \/ has_any_move(board, WHITE))

score(board) == <<counts(board)[1], counts(board)[2]>>

(***************************************************************************)
(* protocol.py                                                             *)
(***************************************************************************)
NEW_GAME == <<"N", "E", "W", " ", "G", "A", "M", "E">>
MOVE     == <<"M", "O", "V", "E">>
PASS     == <<"P", "A", "S", "S">>
YOU_WIN  == <<"Y", "O", "U", " ", "W", "I", "N">>
YOU_LOSE == <<"Y", "O", "U", " ", "L", "O", "S", "E">>
DRAW     == <<"D", "R", "A", "W">>
ERROR    == <<"E", "R", "R", "O", "R">>

PORT_MIN == 9000
PORT_MAX == 9100

ROW_MIN == 0
ROW_MAX == 7
COL_MIN == 0
COL_MAX == 7

Digits == <<"0", "1", "2", "3", "4", "5", "6", "7", "8", "9">>

\* A decimal digit outside ASCII, and its value.
ARABIC_INDIC_THREE == "U+0663"

\* The class \d of a str pattern: every Unicode decimal digit.
IsDigit(ch) == ch = ARABIC_INDIC_THREE \/ \E i \in 1..10 : Digits[i] = ch

\* The value int() gives a digit.
DigitVal(ch) ==
  IF ch = ARABIC_INDIC_THREE THEN 3
  ELSE (CHOOSE i \in 1..10 : Digits[i] = ch) - 1

\* The digits of n with the least significant first.
RECURSIVE NatStr_reversed(_)
NatStr_reversed(n) ==
  IF n < 10 THEN <<Digits[n + 1]>>
  ELSE <<Digits[(n % 10) + 1]>> \o NatStr_reversed(n \div 10)

\* str(n) with the digits in the opposite order.
IntStr_reversed(n) ==
  IF n < 0 THEN <<"-">> \o NatStr_reversed(0 - n) ELSE NatStr_reversed(n)

\* str(n) for an integer n, as f"{n}" formats it.
RECURSIVE NatStr(_)
NatStr(n) == IF n < 10 THEN <<Digits[n + 1]>>
             ELSE NatStr(n \div 10) \o <<Digits[(n % 10) + 1]>>

IntStr(n) == IF n < 0 THEN <<"-">> \o NatStr(0 - n) ELSE NatStr(n)

\* The value of a string of decimal digits, digit by digit.
RECURSIVE digits_val(_)
digits_val(s) == IF Len(s) = 0 THEN 0
                 ELSE 10 * digits_val(SubSeq(s, 1, Len(s) - 1)) + DigitVal(s[Len(s)])

\* int(s) for a string of decimal digits: leading zeros add nothing.
DigitsVal(s) ==
  LET nz == {i \in 1..Len(s) : DigitVal(s[i]) # 0}
  IN  IF nz = {} THEN 0
      ELSE digits_val(SubSeq(s, CHOOSE i \in nz : \A j \in nz : i <= j, Len(s)))

\* the regex group (-?\d+)
IsIntText(s) ==
  LET body == IF Len(s) > 0 /\ s[1] = "-" THEN Tail(s) ELSE s
  IN  Len(body) > 0 /\ \A i \in 1..Len(body) : IsDigit(body[i])

IntVal(s) == IF s[1] = "-" THEN 0 - DigitsVal(Tail(s)) ELSE DigitsVal(s)

\* sys.int_max_str_digits: int() raises ValueError on a string of more
\* digits.
INT_MAX_STR_DIGITS == 4300

\* The number of digits of a string the group (-?\d+) has matched.
ndigits(s) == IF s[1] = "-" THEN Len(s) - 1 ELSE Len(s)

\* int(s) on a string the group (-?\d+) or (\d+) has matched: ok = FALSE
\* stands for ValueError.  The value is computed only where the bounds
\* checks can still pass.
int(s) ==
  IF ndigits(s) > INT_MAX_STR_DIGITS THEN [ok |-> FALSE, val |-> 0]
  ELSE [ok |-> TRUE, val |-> IntVal(s)]

\* line.rstrip("\r\n")
RECURSIVE strip_line(_)
strip_line(line) ==
  IF Len(line) > 0 /\ line[Len(line)] \in {"\r", "\n"}
  THEN strip_line(SubSeq(line, 1, Len(line) - 1))
  ELSE line

startswith(line, prefix) ==
  Len(line) >= Len(prefix) /\ SubSeq(line, 1, Len(prefix)) = prefix

validate_coord(row, col) ==
  ROW_MIN <= row /\ row <= ROW_MAX /\ COL_MIN <= col /\ col <= COL_MAX

validate_port(port) == PORT_MIN <= port /\ port <= PORT_MAX

\* encode_new_game: ok = FALSE stands for ProtocolError.
encode_new_game(port) ==
  IF validate_port(port)
  THEN [ok |-> TRUE, line |-> NEW_GAME \o <<":">> \o IntStr(port)]
  ELSE [ok |-> FALSE, line |-> <<>>]

\* decode_new_game: the pattern ^NEW GAME:(\d+)$ on the stripped line, int()
\* and the range check; err names the exception raised, "none" on success.
decode_new_game(line) ==
  LET s    == strip_line(line)
      rest == SubSeq(s, Len(NEW_GAME) + 2, Len(s))
      bad(e) == [ok |-> FALSE, port |-> 0, err |-> e]
  IN  IF ~startswith(s, NEW_GAME \o <<":">>) THEN bad("ProtocolError")
      ELSE IF ~(Len(rest) > 0 /\ \A i \in 1..Len(rest) : IsDigit(rest[i]))
      THEN bad("ProtocolError")
      ELSE IF ~int(rest).ok THEN bad("ValueError")
      ELSE IF ~validate_port(int(rest).val) THEN bad("ProtocolError")
      ELSE [ok |-> TRUE, port |-> int(rest).val, err |-> "none"]

\* encode_move with the coordinates written in the order col,row.
encode_move_swapped(row, col) ==
  IF validate_coord(row, col)
  THEN [ok |-> TRUE, line |-> MOVE \o <<":">> \o IntStr(col) \o <<",">> \o IntStr(row)]
  ELSE [ok |-> FALSE, line |-> <<>>]

\* encode_move with coordinates counted from 1.
encode_move_one_based(row, col) ==
  IF validate_coord(row, col)
  THEN [ok |-> TRUE,
        line |-> MOVE \o <<":">> \o IntStr(row + 1) \o <<",">> \o IntStr(col + 1)]
  ELSE [ok |-> FALSE, line |-> <<>>]

\* encode_move: ok = FALSE stands for ProtocolError.
encode_move(row, col) ==
  IF validate_coord(row, col)
  THEN [ok |-> TRUE, line |-> MOVE \o <<":">> \o IntStr(row) \o <<",">> \o IntStr(col)]
  ELSE [ok |-> FALSE, line |-> <<>>]

\* decode_move: the strict pattern ^MOVE:(-?\d+),(-?\d+)$ on the stripped
\* line, int() on both groups, then the bounds check; err names the exception
\* raised, "none" on success.
decode_move(line) ==
  LET s    == strip_line(line)
      rest == SubSeq(s, Len(MOVE) + 2, Len(s))
      commas == {i \in 1..Len(rest) : rest[i] = ","}
      k    == CHOOSE i \in commas : TRUE
      a    == SubSeq(rest, 1, k - 1)
      b    == SubSeq(rest, k + 1, Len(rest))
      bad(e) == [ok |-> FALSE, row |-> 0, col |-> 0, err |-> e]
  IN  IF ~startswith(s, MOVE \o <<":">>) THEN bad("ProtocolError")
      ELSE IF Cardinality(commas) # 1 THEN bad("ProtocolError")
      ELSE IF ~(IsIntText(a) /\ IsIntText(b)) THEN bad("ProtocolError")
      ELSE IF ~(int(a).ok /\ int(b).ok) THEN bad("ValueError")
      ELSE IF ~validate_coord(int(a).val, int(b).val) THEN bad("ProtocolError")
      ELSE [ok |-> TRUE, row |-> int(a).val, col |-> int(b).val,
            err |-> "none"]

\* _token_kind_or_none: <<>> stands for None.
token_kind_or_none(line) ==
  LET s == strip_line(line)
  IN  IF s \in {PASS, DRAW, YOU_WIN, YOU_LOSE, ERROR} THEN s ELSE <<>>

is_token(line) == token_kind_or_none(line) # <<>>

\* decode_token that strips surrounding blanks as well.
decode_token_trimmed(line) ==
  LET s == strip_line(line)
      t == IF Len(s) > 0 /\ s[Len(s)] = " " THEN SubSeq(s, 1, Len(s) - 1) ELSE s
  IN  IF t \in {PASS, DRAW, YOU_WIN, YOU_LOSE, ERROR}
      THEN [ok |-> TRUE, kind |-> t]
      ELSE [ok |-> FALSE, kind |-> <<>>]

\* decode_token: ok = FALSE stands for ProtocolError.
decode_token(line) ==
  LET kind == token_kind_or_none(line)
  IN  IF kind = <<>> THEN [ok |-> FALSE, kind |-> <<>>]
      ELSE [ok |-> TRUE, kind |-> kind]

(***************************************************************************)
(* game/outcome.py                                                         *)
(***************************************************************************)
\* outcome_token_for in the sender's frame instead of the recipient's.
outcome_token_own_frame(board, my_color) ==
  LET b == score(board)[1]
      w == score(board)[2]
  IN  IF b = w THEN DRAW
      ELSE IF my_color = BLACK
           THEN (IF b > w THEN YOU_WIN ELSE YOU_LOSE)
           ELSE (IF w > b THEN YOU_WIN ELSE YOU_LOSE)

\* outcome_token_for that tells the peer it won on equal counts.
outcome_token_no_draw(board, my_color) ==
  LET b == score(board)[1]
      w == score(board)[2]
  IN  IF my_color = BLACK
      THEN (IF b > w THEN YOU_LOSE ELSE YOU_WIN)
      ELSE (IF w > b THEN YOU_LOSE ELSE YOU_WIN)

outcome_token_for(board, my_color) ==
  LET b == score(board)[1]
      w == score(board)[2]
  IN  IF b = w THEN DRAW
      ELSE IF my_color = BLACK
           THEN (IF b > w THEN YOU_LOSE ELSE YOU_WIN)
           ELSE (IF w > b THEN YOU_LOSE ELSE YOU_WIN)

\* verify_peer_outcome that accepts a win or a loss on any decided board.
verify_peer_outcome_lax(board, my_color, peer_token) ==
  LET b == score(board)[1]
      w == score(board)[2]
  IN  IF peer_token = DRAW THEN b = w ELSE b # w

\* verify_peer_outcome with the comparisons not strict.
verify_peer_outcome_not_strict(board, my_color, peer_token) ==
  LET b == score(board)[1]
      w == score(board)[2]
  IN  IF peer_token = DRAW THEN b = w
      ELSE IF my_color = BLACK
           THEN (IF peer_token = YOU_WIN THEN b >= w ELSE w >= b)
           ELSE (IF peer_token = YOU_WIN THEN w >= b ELSE b >= w)

verify_peer_outcome(board, my_color, peer_token) ==
  LET b == score(board)[1]
      w == score(board)[2]
  IN  IF peer_token = DRAW THEN b = w
      ELSE IF my_color = BLACK
           THEN (IF peer_token = YOU_WIN THEN b > w ELSE w > b)
           ELSE (IF peer_token = YOU_WIN THEN w > b ELSE b > w)

(***************************************************************************)
(* State of a session: two peers joined by one TCP stream.  Peer 1 was     *)
(* given role P1 by discovery and peer 2 role P2.  rogue names the peer    *)
(* (if any) that is not run_network_game but an arbitrary program writing  *)
(* lines of its own choice; 0 means both peers run run_network_game.       *)
(***************************************************************************)
VARIABLES
  board,               \* board[d]: the replica of driver d
  to_move,             \* to_move[d]
  move_num,            \* move_num[d]
  consecutive_passes,  \* consecutive_passes[d]
  status,              \* how run_network_game ended at d, or RUNNING
  closed,              \* closed[d]: d has closed its end of the stream
  chan,                \* chan[d]: the lines written to d and not yet read by d
  rst,                 \* rst[d]: d's socket was reset by the peer (next write fails)
  announced,           \* the score d gave to announce_winner, or <<>>
  lastOp,              \* the branch of the loop d took last
  lastRecv,            \* the last wire line d read (before decoding)
  nrecv,               \* the number of lines d read
  lastSent,            \* the last line d wrote
  nsent,               \* the number of lines d wrote
  wfail,               \* a write of d has failed
  rogue,               \* the misbehaving peer, or 0
  rogueLeft            \* lines the misbehaving peer may still write

svars == <<board, to_move, move_num, consecutive_passes, status, closed, chan,
           rst, announced, lastOp, lastRecv, nrecv, lastSent, nsent, wfail,
           rogue, rogueLeft>>

(***************************************************************************)
(* State of matchmaking: two peers running discover_and_connect.           *)
(***************************************************************************)
VARIABLES
  dpc,          \* where discover_and_connect is at peer p, or how it ended
  dop,          \* what p did with the last competing advert of its window;
                \* "ignore_peer": it ignored the advert of the window the
                \* other peer is still in
  attempt,      \* attempt[p]: iterations of the outer loop started
  udpq,         \* datagrams waiting in p's UDP listener, oldest first
  listener,     \* p's TCP listener: open, port, gen (the attempt that opened
                \* it), backlog (connections made and not yet accepted)
  clock,        \* ticks of p's clock since my_advert_ts
  ip,           \* the address p's datagrams come from and p listens on
  my_ip_guess,  \* gethostbyname(gethostname()) at p
  conn,         \* the connection p returned with, or NoConn
  lost          \* some advert was not broadcast or not delivered to an open
                \* UDP listener

dvars == <<dpc, dop, attempt, udpq, listener, clock, ip, my_ip_guess, conn,
           lost>>

(***************************************************************************)
(* State of one TcpGame stream at the level of bytes: a writer at one end, *)
(* a TcpGame calling recv_line at the other.                               *)
(***************************************************************************)
VARIABLES
  inflight, \* the segments written and not yet read, oldest first
  rbuf,     \* self._rbuf of the reading TcpGame
  written,  \* the lines written so far, each as [id, via]: the text
            \* Texts[id], by send_line ("send_line") or by a foreign writer
            \* that ends its lines with CRLF ("crlf")
  returned, \* what the calls of recv_line returned so far, in order, each as
            \* the index of the string in Texts (0: none of them)
  rpc,      \* the reader: "idle", "loop" (inside recv_line) or the
            \* exception that ended its last call
  wstate,   \* the writer's socket: "open", "closed", or "closed_again"
            \* once close has been called on the closed socket; "refused"
            \* and "send_failed" are an open socket whose last send_line
            \* raised ProtocolError before, respectively in, sendall
  rfd,      \* the reader's socket: "open", "closed" or "closed_again"
  close_raised \* TRUE when a call of close has raised

tvars == <<inflight, rbuf, written, returned, rpc, wstate, rfd, close_raised>>

\* No byte written and no call of recv_line made.
TransportIdle ==
  /\ inflight = <<>>
  /\ rbuf = <<>>
  /\ written = <<>>
  /\ returned = <<>>
  /\ rpc = "idle"
  /\ wstate = "open"
  /\ rfd = "open"
  /\ close_raised = FALSE

(***************************************************************************)
(* State of the calls of the pure functions: the codec of protocol.py on   *)
(* one input, and the rules of game/rules.py on one board.                 *)
(***************************************************************************)
VARIABLES
  cin,    \* the input of the codec: coordinates, a port or a line
  cout,   \* the function of the codec called last and what it gave
  tboard, \* the board the rules are called on
  plies,  \* the moves applied to reach tboard from its starting board
  query   \* the colour and target of the last query of the rules on
          \* tboard, and what each function gave

pvars == <<cin, cout, tboard, plies, query>>

NoInput == [kind |-> "none"]
NoResult == [fn |-> "none"]
NoQuery == [fn |-> "none", player |-> "none"]

\* No function called.
PureIdle ==
  /\ cin = NoInput
  /\ cout = NoResult
  /\ tboard = initial
  /\ plies = 0
  /\ query = NoQuery

vars == <<svars, dvars, tvars, pvars>>

Peers == {1, 2}

Other(d) == 3 - d

role(d) == IF d = 1 THEN "P1" ELSE "P2"

my_color(d) == IF role(d) = "P1" THEN BLACK ELSE WHITE

opp_color(d) == IF my_color(d) = BLACK THEN WHITE ELSE BLACK

IsDriver(d) == d # rogue

RUNNING == "running"
RET0    == "return 0"
RET1    == "return 1"
RAISED_PROTOCOL == "raise ProtocolError"
RAISED_UNICODE  == "raise UnicodeDecodeError"
RAISED_ILLEGAL  == "raise IllegalMoveError"
RAISED_VALUE    == "raise ValueError"

(***************************************************************************)
(* net/tcp_game.py at the granularity of lines.  net is the record of the  *)
(* transport variables an operation reads and updates.                     *)
(***************************************************************************)
Net == [chan |-> chan, rst |-> rst, lastSent |-> lastSent, nsent |-> nsent,
        wfail |-> wfail, lastRecv |-> lastRecv, nrecv |-> nrecv]

\* The transport variables after an operation.
SetNet(net) ==
  /\ chan' = net.chan
  /\ rst' = net.rst
  /\ lastSent' = net.lastSent
  /\ nsent' = net.nsent
  /\ wfail' = net.wfail
  /\ lastRecv' = net.lastRecv
  /\ nrecv' = net.nrecv

\* Taking the next complete line out of d's input.
take_line(net, d) ==
  [net EXCEPT !.chan[d] = Tail(@), !.lastRecv[d] = Head(net.chan[d]),
              !.nrecv[d] = @ + 1]

HasCRLF(line) == \E i \in 1..Len(line) : line[i] \in {"\r", "\n"}

\* sock.sendall(data): fails on a reset or closed socket, or when the
\* transport fails (fault: a timeout or another OSError).  A write to a peer
\* that has closed is accepted once and answered by a reset.
sendall(net, d, wire, fault) ==
  IF fault \/ net.rst[d] \/ closed[d]
  THEN [ok |-> FALSE, net |-> [net EXCEPT !.wfail[d] = TRUE]]
  ELSE [ok |-> TRUE,
        net |-> [net EXCEPT
                   !.chan[Other(d)] = IF closed[Other(d)] THEN @ ELSE Append(@, wire),
                   !.rst[d] = closed[Other(d)],
                   !.lastSent[d] = wire,
                   !.nsent[d] = @ + 1]]

\* send_line that reports success and writes nothing.
send_line_dropped(net, d, line, fault) == [ok |-> TRUE, net |-> net]

\* send_line: ok = FALSE stands for ProtocolError.
send_line(net, d, line, fault) ==
  IF HasCRLF(line) THEN [ok |-> FALSE, net |-> net]
  ELSE sendall(net, d, line, fault)

\* recv_line on a complete wire line: one trailing CR is dropped, then the
\* bytes are decoded as strict UTF-8 (utf8 = FALSE: UnicodeDecodeError).
recv_line(wire) ==
  LET raw == IF Len(wire) > 0 /\ wire[Len(wire)] = "\r"
             THEN SubSeq(wire, 1, Len(wire) - 1) ELSE wire
  IN  [utf8 |-> \A i \in 1..Len(raw) : raw[i] # "0xFF", line |-> raw]

\* TcpGame.close: unread input makes the close send a reset to the peer.
close(net, d) ==
  [net EXCEPT !.chan[d] = <<>>,
              !.rst[Other(d)] = @ \/ (net.chan[d] # <<>> /\ ~closed[d])]

(***************************************************************************)
(* main.py: run_network_game.  One action is one iteration of the loop.    *)
(***************************************************************************)
\* An iteration without the finally clause of lines 255-260: the stream is
\* closed where the driver returns, and left open where an exception escapes.
Update_close_on_return(d, op, b, tm, mn, cp, st, ann, net) ==
  /\ board' = [board EXCEPT ![d] = b]
  /\ to_move' = [to_move EXCEPT ![d] = tm]
  /\ move_num' = [move_num EXCEPT ![d] = mn]
  /\ consecutive_passes' = [consecutive_passes EXCEPT ![d] = cp]
  /\ status' = [status EXCEPT ![d] = st]
  /\ closed' = [closed EXCEPT ![d] = (st \in {RET0, RET1})]
  /\ announced' = [announced EXCEPT ![d] = ann]
  /\ lastOp' = [lastOp EXCEPT ![d] = op]
  /\ SetNet(IF st \in {RET0, RET1} THEN close(net, d) ELSE net)
  /\ UNCHANGED <<rogue, rogueLeft>>
  /\ UNCHANGED <<dvars, tvars, pvars>>

\* What one iteration leaves behind at driver d.
Update(d, op, b, tm, mn, cp, st, ann, net) ==
  /\ board' = [board EXCEPT ![d] = b]
  /\ to_move' = [to_move EXCEPT ![d] = tm]
  /\ move_num' = [move_num EXCEPT ![d] = mn]
  /\ consecutive_passes' = [consecutive_passes EXCEPT ![d] = cp]
  /\ status' = [status EXCEPT ![d] = st]
  /\ closed' = [closed EXCEPT ![d] = (st # RUNNING)]
  /\ announced' = [announced EXCEPT ![d] = ann]
  /\ lastOp' = [lastOp EXCEPT ![d] = op]
  /\ SetNet(IF st # RUNNING THEN close(net, d) ELSE net)
  /\ UNCHANGED <<rogue, rogueLeft>>
  /\ UNCHANGED <<dvars, tvars, pvars>>

\* _send_outcome_and_close: the token is sent, then (finally) the winner is
\* announced and the stream closed; a failed send escapes as ProtocolError.
send_outcome_and_close(d, op, cp, net, fault) ==
  LET s == send_line(net, d, outcome_token_for(board[d], my_color(d)), fault)
  IN  Update(d, op, board[d], to_move[d], move_num[d], cp,
             IF s.ok THEN RET0 ELSE RAISED_PROTOCOL, score(board[d]), s.net)

\* The rejection path without the ERROR line: close and return 1.
close_then_return_1(d, op, net, fault) ==
  Update(d, op, board[d], to_move[d], move_num[d], consecutive_passes[d],
         RET1, announced[d], net)

\* try: tg.send_line(ERROR) / finally: tg.close(); return 1
send_error_then_return_1(d, op, net, fault) ==
  LET s == send_line(net, d, ERROR, fault)
  IN  Update(d, op, board[d], to_move[d], move_num[d], consecutive_passes[d],
             IF s.ok THEN RET1 ELSE RAISED_PROTOCOL, announced[d], s.net)

AtLoopTop(d) == IsDriver(d) /\ status[d] = RUNNING

\* lines 136-137: the board is already terminal
Finish(d, fault) ==
  /\ AtLoopTop(d)
  /\ is_game_over(board[d])
  /\ send_outcome_and_close(d, "finish", consecutive_passes[d], Net, fault)

\* The pass branch taken without looking at the list of moves.
LocalPass_unforced(d, fault) ==
  /\ AtLoopTop(d)
  /\ to_move[d] = my_color(d)
  /\ ~is_game_over(board[d])
  /\ LET s == send_line(Net, d, PASS, fault)
     IN  IF ~s.ok
         THEN Update(d, "pass", board[d], to_move[d], move_num[d],
                     consecutive_passes[d], RAISED_PROTOCOL, announced[d], s.net)
         ELSE IF ~has_any_move(board[d], opp_color(d))
                   \/ consecutive_passes[d] + 1 >= 2
              THEN send_outcome_and_close(d, "pass", consecutive_passes[d] + 1,
                                          s.net, fault)
              ELSE Update(d, "pass", board[d], opp_color(d), move_num[d],
                          consecutive_passes[d] + 1, RUNNING, announced[d], s.net)

\* The pass branch entered without the check of lines 136-137 before it.
LocalPass_before_terminal_check(d, fault) ==
  /\ AtLoopTop(d)
  /\ to_move[d] = my_color(d)
  /\ valid_moves(board[d], my_color(d)) = <<>>
  /\ LET s == send_line(Net, d, PASS, fault)
     IN  IF ~s.ok
         THEN Update(d, "pass", board[d], to_move[d], move_num[d],
                     consecutive_passes[d], RAISED_PROTOCOL, announced[d], s.net)
         ELSE IF ~has_any_move(board[d], opp_color(d))
                   \/ consecutive_passes[d] + 1 >= 2
              THEN send_outcome_and_close(d, "pass", consecutive_passes[d] + 1,
                                          s.net, fault)
              ELSE Update(d, "pass", board[d], opp_color(d), move_num[d],
                          consecutive_passes[d] + 1, RUNNING, announced[d], s.net)

\* lines 139-153: my turn and no legal move
LocalPass(d, fault) ==
  /\ AtLoopTop(d)
  /\ to_move[d] = my_color(d)
  /\ valid_moves(board[d], my_color(d)) = <<>>
  /\ ~is_game_over(board[d])
  /\ LET s == send_line(Net, d, PASS, fault)
     IN  IF ~s.ok
         THEN Update(d, "pass", board[d], to_move[d], move_num[d],
                     consecutive_passes[d], RAISED_PROTOCOL, announced[d], s.net)
         ELSE IF ~has_any_move(board[d], opp_color(d))
                   \/ consecutive_passes[d] + 1 >= 2
              THEN send_outcome_and_close(d, "pass", consecutive_passes[d] + 1,
                                          s.net, fault)
              ELSE Update(d, "pass", board[d], opp_color(d), move_num[d],
                          consecutive_passes[d] + 1, RUNNING, announced[d], s.net)

\* prompt_move: the indices the UI may return for this list of moves
Choices(moves, mn) ==
  IF mn <= MaxFreePlies THEN {0, Len(moves) - 1} ELSE {0}

\* lines 156-165: the UI returns None
LocalQuit(d, fault) ==
  /\ AtLoopTop(d)
  /\ to_move[d] = my_color(d)
  /\ valid_moves(board[d], my_color(d)) # <<>>
  /\ ~is_game_over(board[d])
  /\ LET s == send_line(Net, d, ERROR, fault)
     IN  Update(d, "quit", board[d], to_move[d], move_num[d],
                consecutive_passes[d], RET0, announced[d], s.net)

\* The move branch without the increment of move_num.
LocalMove_uncounted(d, fault) ==
  /\ AtLoopTop(d)
  /\ to_move[d] = my_color(d)
  /\ LET moves == valid_moves(board[d], my_color(d))
     IN  /\ moves # <<>>
         /\ ~is_game_over(board[d])
         /\ \E choice \in Choices(moves, move_num[d]) :
              LET rc == moves[choice + 1]
                  a  == apply_move(board[d], my_color(d), rc[1], rc[2])
                  e  == encode_move(rc[1], rc[2])
                  s  == send_line(Net, d, e.line, fault)
              IN  IF ~a.ok
                  THEN Update(d, "move", board[d], to_move[d], move_num[d],
                              consecutive_passes[d], RAISED_ILLEGAL, announced[d], Net)
                  ELSE IF ~e.ok
                  THEN Update(d, "move", a.board, to_move[d], move_num[d], 0,
                              RAISED_PROTOCOL, announced[d], Net)
                  ELSE IF ~s.ok
                  THEN Update(d, "move", a.board, to_move[d], move_num[d], 0,
                              RAISED_PROTOCOL, announced[d], s.net)
                  ELSE Update(d, "move", a.board, opp_color(d), move_num[d], 0,
                              RUNNING, announced[d], s.net)

\* lines 156-177: the UI returns an index into the legal moves
LocalMove(d, fault) ==
  /\ AtLoopTop(d)
  /\ to_move[d] = my_color(d)
  /\ LET moves == valid_moves(board[d], my_color(d))
     IN  /\ moves # <<>>
         /\ ~is_game_over(board[d])
         /\ \E choice \in Choices(moves, move_num[d]) :
              LET rc == moves[choice + 1]
                  a  == apply_move(board[d], my_color(d), rc[1], rc[2])
                  e  == encode_move(rc[1], rc[2])
                  s  == send_line(Net, d, e.line, fault)
              IN  IF ~a.ok
                  THEN Update(d, "move", board[d], to_move[d], move_num[d],
                              consecutive_passes[d], RAISED_ILLEGAL, announced[d], Net)
                  ELSE IF ~e.ok
                  THEN Update(d, "move", a.board, to_move[d], move_num[d] + 1, 0,
                              RAISED_PROTOCOL, announced[d], Net)
                  ELSE IF ~s.ok
                  THEN Update(d, "move", a.board, to_move[d], move_num[d] + 1, 0,
                              RAISED_PROTOCOL, announced[d], s.net)
                  ELSE Update(d, "move", a.board, opp_color(d), move_num[d] + 1, 0,
                              RUNNING, announced[d], s.net)

\* lines 188-253: what the driver does with a line recv_line returned
Dispatch(d, line, net, fault) ==
  IF line = PASS
  THEN IF ~has_any_move(board[d], my_color(d)) \/ consecutive_passes[d] + 1 >= 2
       THEN send_outcome_and_close(d, "recv", consecutive_passes[d] + 1, net, fault)
       ELSE Update(d, "recv", board[d], my_color(d), move_num[d],
                   consecutive_passes[d] + 1, RUNNING, announced[d], net)
  ELSE IF is_token(line) /\ line \in {YOU_WIN, YOU_LOSE, DRAW}
  THEN IF ~verify_peer_outcome(board[d], my_color(d), line)
       THEN send_error_then_return_1(d, "recv", net, fault)
       ELSE Update(d, "recv", board[d], to_move[d], move_num[d],
                   consecutive_passes[d], RET0, score(board[d]), net)
  ELSE IF ~startswith(line, MOVE \o <<":">>)
  THEN send_error_then_return_1(d, "recv", net, fault)
  ELSE IF decode_move(line).err = "ValueError"
  THEN Update(d, "recv", board[d], to_move[d], move_num[d],
              consecutive_passes[d], RAISED_VALUE, announced[d], net)
  ELSE IF ~decode_move(line).ok
  THEN send_error_then_return_1(d, "recv", net, fault)
  ELSE LET msg == decode_move(line)
           a   == apply_move(board[d], opp_color(d), msg.row, msg.col)
       IN  IF ~a.ok
           THEN send_error_then_return_1(d, "recv", net, fault)
           ELSE Update(d, "recv", a.board, my_color(d), move_num[d] + 1, 0,
                       RUNNING, announced[d], net)

\* lines 180-253: the peer's turn and a line is readable
Recv(d, fault) ==
  /\ AtLoopTop(d)
  /\ to_move[d] # my_color(d)
  /\ chan[d] # <<>>
  /\ ~is_game_over(board[d])
  /\ LET got == recv_line(Head(chan[d]))
         net == take_line(Net, d)
     IN  IF ~got.utf8
         THEN Update(d, "recv", board[d], to_move[d], move_num[d],
                     consecutive_passes[d], RAISED_UNICODE, announced[d], net)
         ELSE Dispatch(d, got.line, net, fault)

\* lines 181-186: recv_line raises ProtocolError because the peer has closed
\* and nothing is left to read
RecvClosed(d) ==
  /\ AtLoopTop(d)
  /\ to_move[d] # my_color(d)
  /\ chan[d] = <<>>
  /\ closed[Other(d)]
  /\ ~is_game_over(board[d])
  /\ Update(d, "eof", board[d], to_move[d], move_num[d], consecutive_passes[d],
            RET1, announced[d], Net)

\* lines 181-186: recv_line raises ProtocolError on a timeout
RecvTimeout(d) ==
  /\ AtLoopTop(d)
  /\ to_move[d] # my_color(d)
  /\ chan[d] = <<>>
  /\ ~closed[Other(d)]
  /\ ~is_game_over(board[d])
  /\ Update(d, "timeout", board[d], to_move[d], move_num[d],
            consecutive_passes[d], RET1, announced[d], Net)

(***************************************************************************)
(* The misbehaving peer: any program at the other end of the stream.       *)
(***************************************************************************)
Text_HELLO == <<"H", "E", "L", "L", "O", ":", "W", "O", "R", "L", "D">>

RogueLines ==
  { PASS, YOU_WIN, YOU_LOSE, DRAW, ERROR, Text_HELLO,
    MOVE \o <<":", "9", ",", "9">>,
    MOVE \o <<":", "2", ",", "x">>,
    MOVE \o <<":", "2", ",", "3">>,
    MOVE \o <<":", "2", ",", "2">>,
    MOVE \o <<":", "4", ",", "4">>,
    MOVE \o <<":", "2", ",", "3", "\r">>,
    <<"0xFF">> }

RogueSend(p) ==
  /\ p = rogue
  /\ rogueLeft > 0
  /\ ~closed[p]
  /\ ~rst[p]
  /\ \E wire \in RogueLines : SetNet(sendall(Net, p, wire, FALSE).net)
  /\ rogueLeft' = rogueLeft - 1
  /\ UNCHANGED <<board, to_move, move_num, consecutive_passes, status, closed,
                 announced, lastOp, rogue>>
  /\ UNCHANGED <<dvars, tvars, pvars>>

RogueRecv(p) ==
  /\ p = rogue
  /\ ~closed[p]
  /\ chan[p] # <<>>
  /\ SetNet(take_line(Net, p))
  /\ UNCHANGED <<board, to_move, move_num, consecutive_passes, status, closed,
                 announced, lastOp, rogue, rogueLeft>>
  /\ UNCHANGED <<dvars, tvars, pvars>>

RogueClose(p) ==
  /\ p = rogue
  /\ ~closed[p]
  /\ closed' = [closed EXCEPT ![p] = TRUE]
  /\ SetNet(close(Net, p))
  /\ UNCHANGED <<board, to_move, move_num, consecutive_passes, status,
                 announced, lastOp, rogue, rogueLeft>>
  /\ UNCHANGED <<dvars, tvars, pvars>>

(***************************************************************************)
(* net/udp_discovery.py: discover_and_connect.                             *)
(***************************************************************************)

\* The gameplay ports the model lets _choose_free_tcp_port pick from.
Ports == {PORT_MIN, PORT_MAX}

\* Addresses as strings of characters; Python orders str by code point.
CharOrder == <<".", "0", "1", "2", "3", "4", "5", "6", "7", "8", "9">>

Ord(ch) == CHOOSE i \in 1..Len(CharOrder) : CharOrder[i] = ch

RECURSIVE str_lt(_, _)
str_lt(a, b) ==
  IF Len(b) = 0 THEN FALSE
  ELSE IF Len(a) = 0 THEN TRUE
  ELSE IF Head(a) # Head(b) THEN Ord(Head(a)) < Ord(Head(b))
  ELSE str_lt(Tail(a), Tail(b))

IP_A == <<"1", "0", ".", "0", ".", "0", ".", "2">>
IP_B == <<"1", "0", ".", "0", ".", "0", ".", "1", "0">>
IP_LOOPBACK == <<"1", "2", "7", ".", "0", ".", "1", ".", "1">>

Hosts == {IP_A, IP_B}

\* _tie_breaker_key
tie_breaker_key(ts, addr, port) == <<ts, addr, port>>

\* Python's < on two keys (float, str, int): lexicographic.
key_lt(k1, k2) ==
  \/ k1[1] < k2[1]
  \/ k1[1] = k2[1] /\ str_lt(k1[2], k2[2])
  \/ k1[1] = k2[1] /\ k1[2] = k2[2] /\ k1[3] < k2[3]

\* The comparison that also prefers a peer whose key equals one's own.
prefer_peer_or_equal(my_ad_ts, my_ip, my_port, peer_ts, peer_ip, peer_port) ==
  LET mine == tie_breaker_key(my_ad_ts, my_ip, my_port)
      peer == tie_breaker_key(peer_ts, peer_ip, peer_port)
  IN  key_lt(peer, mine) \/ peer = mine

\* _prefer_peer
prefer_peer(my_ad_ts, my_ip, my_port, peer_ts, peer_ip, peer_port) ==
  key_lt(tie_breaker_key(peer_ts, peer_ip, peer_port),
         tie_breaker_key(my_ad_ts, my_ip, my_port))

\* my_advert_ts, the origin of clock[p]
my_advert_ts == 0

NoConn == [from |-> 0, to |-> 0, gen |-> 0]

Roles == {"P1", "P2"}

\* p's UDP listener is open (closed by the outer finally when p leaves).
udp_open(p) == dpc[p] \in {"passive", "advertising", "active", "connected"}

\* attempt += 1
next_attempt(a) == IF a < MaxAttempts THEN a + 1 ELSE a

\* No listening socket: none made yet, or the last one closed.
NoListener == [open |-> FALSE, port |-> PORT_MIN, gen |-> 0, backlog |-> <<>>]

\* listener.close(): the socket is gone, and with it its port and the
\* connections still in its backlog.
listener_close(l) == NoListener

\* The demotion that leaves the listener open while connecting back.
demote_keep_listener(l) == l

\* lines 204-207: the demoted peer closes its listener before it connects
demote_listener(l) == listener_close(l)

\* _choose_free_tcp_port: a port no open listener of this host is bound to
FreePorts(p) ==
  {n \in Ports : \A q \in Peers :
     ~(ip[q] = ip[p] /\ listener[q].open /\ listener[q].port = n)}

\* The peers whose open listener a connect to (addr, port) reaches, given
\* the listeners ls.
Listening(ls, addr, port) ==
  {q \in Peers : ip[q] = addr /\ ls[q].open /\ ls[q].port = port}

\* The open UDP listeners a broadcast reaches when the network delivers it
\* to rcpts: those of rcpts with room in their buffer.
reached(rcpts) == {q \in rcpts : udp_open(q) /\ Len(udpq[q]) < MaxQueue}

\* _broadcast_new_game: one datagram to every open UDP listener the network
\* delivers it to (the sender's own included).
broadcast(p, port, rcpts) ==
  [q \in Peers |->
     IF q \in reached(rcpts)
     THEN Append(udpq[q], [ip |-> ip[p], port |-> port])
     ELSE udpq[q]]

\* tcp_sock.connect((addr, port)) by p, with the listeners as in ls; on
\* success the connection waits in the target's backlog and p goes on to
\* return P2.
connect_back(p, op, ls, addr, port, queue) ==
  LET q == CHOOSE q \in Listening(ls, addr, port) : TRUE
      c == [from |-> p, to |-> q, gen |-> ls[q].gen]
  IN  /\ Listening(ls, addr, port) # {}
      /\ listener' = [ls EXCEPT ![q].backlog = Append(@, c)]
      /\ conn' = [conn EXCEPT ![p] = c]
      /\ dpc' = [dpc EXCEPT ![p] = "connected"]
      /\ dop' = [dop EXCEPT ![p] = op]
      /\ udpq' = [udpq EXCEPT ![p] = queue]
      /\ UNCHANGED <<attempt, clock>>

\* lines 134-145: a NEW GAME datagram arrives in the passive window; connect
\* back, and on OSError start the next attempt
PassiveRecv(p) ==
  /\ dpc[p] = "passive"
  /\ udpq[p] # <<>>
  /\ LET found == Head(udpq[p])
     IN  \/ connect_back(p, dop[p], listener, found.ip, found.port, Tail(udpq[p]))
         \/ /\ Listening(listener, found.ip, found.port) = {}
            /\ attempt' = [attempt EXCEPT ![p] = next_attempt(@)]
            /\ udpq' = [udpq EXCEPT ![p] = Tail(@)]
            /\ UNCHANGED <<dpc, dop, listener, clock, conn>>
  /\ UNCHANGED <<ip, my_ip_guess, lost, svars, tvars, pvars>>

\* lines 134-135: the passive window ends with no datagram read
PassiveTimeout(p) ==
  /\ dpc[p] = "passive"
  /\ udpq[p] = <<>>
  /\ dpc' = [dpc EXCEPT ![p] = "advertising"]
  /\ UNCHANGED <<dop, attempt, udpq, listener, clock, ip, my_ip_guess, conn,
                 lost, svars, tvars, pvars>>

\* lines 147-166: open a listener on a free port, take my_advert_ts and
\* broadcast NEW GAME.  When the network is not reliable, gethostbyname
\* (before the try) or sendto (inside it) may raise and the datagram may miss
\* a listener.
Advertise(p, reliable) ==
  /\ dpc[p] = "advertising"
  /\ \E gameplay_port \in FreePorts(p),
        outcome \in IF reliable THEN {"sent"} ELSE {"sent", "gaierror", "oserror"},
        rcpts \in IF reliable THEN {Peers} ELSE SUBSET Peers :
       LET l == [open |-> TRUE, port |-> gameplay_port, gen |-> attempt[p],
                 backlog |-> <<>>]
           heard == IF outcome = "sent" THEN reached(rcpts) ELSE {}
       IN  /\ outcome # "sent" => rcpts = {}
           /\ listener' = [listener EXCEPT
                             ![p] = IF outcome = "oserror" THEN listener_close(l) ELSE l]
           /\ dpc' = [dpc EXCEPT ![p] = IF outcome = "sent" THEN "active" ELSE "raised"]
           /\ dop' = [dop EXCEPT ![p] = "none",
                               ![Other(p)] = IF @ = "ignore_peer" THEN "ignore" ELSE @]
           /\ udpq' = IF outcome = "sent" THEN broadcast(p, gameplay_port, rcpts)
                      ELSE [udpq EXCEPT ![p] = <<>>]
           /\ clock' = [clock EXCEPT ![p] = my_advert_ts]
           /\ lost' = (lost \/ \E q \in Peers : udp_open(q) /\ q \notin heard)
  /\ UNCHANGED <<attempt, ip, my_ip_guess, conn, svars, tvars, pvars>>

\* time passes at p during the active window
Tick(p) ==
  /\ dpc[p] = "active"
  /\ clock[p] < my_advert_ts + WindowTicks
  /\ clock' = [clock EXCEPT ![p] = @ + 1]
  /\ UNCHANGED <<dpc, dop, attempt, udpq, listener, ip, my_ip_guess, conn,
                 lost, svars, tvars, pvars>>

\* lines 178-185: the listener is readable; accept and return P1
ActiveAccept(p) ==
  /\ dpc[p] = "active"
  /\ clock[p] < my_advert_ts + WindowTicks
  /\ listener[p].open
  /\ listener[p].backlog # <<>>
  /\ conn' = [conn EXCEPT ![p] = Head(listener[p].backlog)]
  /\ dpc' = [dpc EXCEPT ![p] = "P1"]
  /\ listener' = [listener EXCEPT ![p] = listener_close(@)]
  /\ udpq' = [udpq EXCEPT ![p] = <<>>]
  /\ UNCHANGED <<dop, attempt, clock, ip, my_ip_guess, lost, svars, tvars,
                 pvars>>

\* The advert ad is the one q broadcast for the window q is in.
from_window_of(q, ad) ==
  /\ dpc[q] = "active" /\ listener[q].open
  /\ ad = [ip |-> ip[q], port |-> listener[q].port]

\* lines 188-217: a competing NEW GAME arrives in the active window
ActiveRecvAdvert(p) ==
  /\ dpc[p] = "active"
  /\ clock[p] < my_advert_ts + WindowTicks
  /\ listener[p].open
  /\ udpq[p] # <<>>
  /\ LET ad == Head(udpq[p])
         peer_ts == clock[p]
         ls == [listener EXCEPT ![p] = demote_listener(@)]
     IN  IF ~prefer_peer(my_advert_ts, my_ip_guess[p], listener[p].port,
                         peer_ts, ad.ip, ad.port)
         THEN /\ udpq' = [udpq EXCEPT ![p] = Tail(@)]
              /\ dop' = [dop EXCEPT ![p] = IF from_window_of(Other(p), ad)
                                            THEN "ignore_peer" ELSE "ignore"]
              /\ UNCHANGED <<dpc, attempt, listener, clock, conn>>
         ELSE \/ connect_back(p, "demote", ls, ad.ip, ad.port, Tail(udpq[p]))
              \/ /\ Listening(ls, ad.ip, ad.port) = {}
                 /\ listener' = ls
                 /\ udpq' = [udpq EXCEPT ![p] = Tail(@)]
                 /\ dop' = [dop EXCEPT ![p] = "demote_failed"]
                 /\ UNCHANGED <<dpc, attempt, clock, conn>>
  /\ UNCHANGED <<ip, my_ip_guess, lost, svars, tvars, pvars>>

\* lines 169-173 after a failed connect-back: select on the closed listener
\* raises ValueError
SelectClosed(p) ==
  /\ dpc[p] = "active"
  /\ clock[p] < my_advert_ts + WindowTicks
  /\ ~listener[p].open
  /\ dpc' = [dpc EXCEPT ![p] = "raised"]
  /\ udpq' = [udpq EXCEPT ![p] = <<>>]
  /\ UNCHANGED <<dop, attempt, listener, clock, ip, my_ip_guess, conn, lost, svars, tvars,
                 pvars>>

\* lines 219-223: the window expired; close the listener and loop
ActiveTimeout(p) ==
  /\ dpc[p] = "active"
  /\ clock[p] = my_advert_ts + WindowTicks
  /\ listener' = [listener EXCEPT ![p] = listener_close(@)]
  /\ dpc' = [dpc EXCEPT ![p] = "passive"]
  /\ attempt' = [attempt EXCEPT ![p] = next_attempt(@)]
  /\ UNCHANGED <<dop, udpq, clock, ip, my_ip_guess, conn, lost, svars, tvars,
                 pvars>>

\* lines 145 and 217, then the finally clauses: return P2
ReturnP2(p) ==
  /\ dpc[p] = "connected"
  /\ dpc' = [dpc EXCEPT ![p] = "P2"]
  /\ listener' = [listener EXCEPT ![p] = listener_close(@)]
  /\ udpq' = [udpq EXCEPT ![p] = <<>>]
  /\ UNCHANGED <<dop, attempt, clock, ip, my_ip_guess, conn, lost, svars, tvars,
                 pvars>>

(***************************************************************************)
(* net/tcp_game.py at the level of bytes.  A str is a sequence of code     *)
(* points, bytes are numbers, and a write reaches the reader in the        *)
(* segments the network cut it into.                                       *)
(***************************************************************************)
\* _MAX_LINE_LEN
MAX_LINE_LEN == 1024

\* the argument of self._sock.recv
RECV_MAX == 4096

\* ord("\n") and the byte of "\r"
LF == 10
CR == 13

\* A run of n equal values.  A bytes object or a str is held as the sequence
\* of its runs, adjacent runs holding different values.
run(v, n) == [v |-> v, n |-> n]

\* len(s)
RECURSIVE size(_)
size(s) == IF s = <<>> THEN 0 ELSE Head(s).n + size(Tail(s))

\* a + b
join(a, b) ==
  IF a = <<>> THEN b
  ELSE IF b = <<>> THEN a
  ELSE IF a[Len(a)].v = Head(b).v
  THEN SubSeq(a, 1, Len(a) - 1)
         \o <<run(Head(b).v, a[Len(a)].n + Head(b).n)>>
         \o Tail(b)
  ELSE a \o b

\* s[:k]
RECURSIVE take(_, _)
take(s, k) ==
  IF k <= 0 \/ s = <<>> THEN <<>>
  ELSE IF Head(s).n <= k THEN <<Head(s)>> \o take(Tail(s), k - Head(s).n)
  ELSE <<run(Head(s).v, k)>>

\* s[k:]
RECURSIVE drop(_, _)
drop(s, k) ==
  IF k <= 0 \/ s = <<>> THEN s
  ELSE IF Head(s).n <= k THEN drop(Tail(s), k - Head(s).n)
  ELSE <<run(Head(s).v, Head(s).n - k)>> \o Tail(s)

\* s[i - 1], for i in 1..len(s)
RECURSIVE at(_, _)
at(s, i) == IF i <= Head(s).n THEN Head(s).v ELSE at(Tail(s), i - Head(s).n)

\* The position of the first byte in s, counting from before + 1; 0 when s
\* does not hold it.
RECURSIVE find_after(_, _, _)
find_after(s, byte, before) ==
  IF s = <<>> THEN 0
  ELSE IF Head(s).v = byte THEN before + 1
  ELSE find_after(Tail(s), byte, before + Head(s).n)

\* self._rbuf.find(ord("\n")), counting from 1; 0 where Python gives -1
find(buf, byte) == find_after(buf, byte, 0)

\* The two bytes of a code point in U+0080..U+07FF, n times over.
RECURSIVE two_bytes(_, _)
two_bytes(c, n) ==
  IF n = 0 THEN <<>>
  ELSE <<run(192 + (c \div 64), 1), run(128 + (c % 64), 1)>>
         \o two_bytes(c, n - 1)

\* str.encode("utf-8", errors="strict") for code points below U+0800: one
\* byte below U+0080, else two.
RECURSIVE encode_utf8(_)
encode_utf8(s) ==
  IF s = <<>> THEN <<>>
  ELSE IF Head(s).v < 128 THEN join(<<Head(s)>>, encode_utf8(Tail(s)))
  ELSE join(two_bytes(Head(s).v, Head(s).n), encode_utf8(Tail(s)))

\* bytes.decode("utf-8", errors="strict") for the same range; ok is FALSE
\* where Python raises UnicodeDecodeError.
RECURSIVE decode_utf8(_)
decode_utf8(b) ==
  IF b = <<>> THEN [ok |-> TRUE, text |-> <<>>]
  ELSE IF Head(b).v < 128
  THEN LET rest == decode_utf8(Tail(b))
       IN  [ok |-> rest.ok, text |-> join(<<Head(b)>>, rest.text)]
  ELSE IF /\ Head(b).v \in 194..223
          /\ size(b) >= 2
          /\ at(b, 2) \in 128..191
  THEN LET rest == decode_utf8(drop(b, 2))
           c == (Head(b).v - 192) * 64 + (at(b, 2) - 128)
       IN  [ok |-> rest.ok, text |-> join(<<run(c, 1)>>, rest.text)]
  ELSE [ok |-> FALSE, text |-> <<>>]

\* n times the letter x
pad(n) == <<run(120, n)>>

\* The strings the writer chooses from: empty, with a two-byte character,
\* around the length limit, and one with a CR inside.
Texts ==
  << <<>>,
     <<run(233, 1), run(97, 1)>>,
     pad(MAX_LINE_LEN - 1),
     pad(MAX_LINE_LEN),
     pad(MAX_LINE_LEN + 1),
     <<run(97, 1), run(CR, 1), run(98, 1)>> >>

\* The index in Texts of the string t, or 0.
text_id(t) ==
  IF \E id \in 1..Len(Texts) : Texts[id] = t
  THEN CHOOSE id \in 1..Len(Texts) : Texts[id] = t
  ELSE 0

\* The places where the network cuts a write of n bytes in two: after the
\* first byte and before the last.
Cuts(n) == {k \in {1, n - 1} : 0 < k /\ k < n}

\* The segments of data cut at k (0: not cut).
segments(data, k) ==
  IF k = 0 THEN <<data>> ELSE <<take(data, k), drop(data, k)>>

\* send_line that makes its check after the write.
send_line_data_check_after(line) ==
  [ok |-> \A i \in 1..Len(line) : line[i].v \notin {CR, LF},
   data |-> encode_utf8(join(line, <<run(LF, 1)>>))]

\* send_line up to sendall, lines 51-54: ok = FALSE stands for the
\* ProtocolError raised when the line holds CR or LF; data is what is handed
\* to sendall, nothing after a refusal.
send_line_data(line) ==
  IF \E i \in 1..Len(line) : line[i].v \in {CR, LF}
  THEN [ok |-> FALSE, data |-> <<>>]
  ELSE [ok |-> TRUE, data |-> encode_utf8(join(line, <<run(LF, 1)>>))]

\* Stripping the terminator but leaving a CR before the LF.
strip_lf_only(raw) == take(raw, size(raw) - 1)

\* recv_line, lines 72-75: strip one trailing LF and the CR before it, if any
strip_eol(raw) ==
  IF size(raw) >= 2 /\ at(raw, size(raw) - 1) = CR /\ at(raw, size(raw)) = LF
  THEN take(raw, size(raw) - 2)
  ELSE IF at(raw, size(raw)) = LF THEN take(raw, size(raw) - 1)
  ELSE raw

\* The bytes of the segments segs, in order.
RECURSIVE concat(_)
concat(segs) ==
  IF segs = <<>> THEN <<>> ELSE join(Head(segs), concat(Tail(segs)))

\* The descriptor of a socket in state st, and whether the socket is gone.
fd_of(st) == IF st \in {"closed", "closed_again"} THEN "closed" ELSE "open"

IsClosed(st) == fd_of(st) = "closed"

\* What sendall(data) does at a socket in wstate whose peer's socket is in
\* peer: the segments that enter the stream and whether OSError is raised.
\* Written towards a closed peer the bytes are lost, with or without an
\* error.
sendall_outcomes(data, peer) ==
  IF data = <<>> THEN {[segs |-> <<>>, ok |-> TRUE]}
  ELSE IF peer = "closed"
  THEN {[segs |-> <<>>, ok |-> o] : o \in BOOLEAN}
  ELSE {[segs |-> segments(data, k), ok |-> TRUE] :
          k \in Cuts(size(data)) \cup {0}}

\* The writer calls send_line(Texts[id]); the network delivers the write
\* whole or cut in two.
SendLine(id) ==
  /\ ~IsClosed(wstate)
  /\ Len(written) < MaxLines
  /\ LET s == send_line_data(Texts[id])
     IN  \E o \in sendall_outcomes(s.data, fd_of(rfd)) :
           /\ inflight' = inflight \o o.segs
           /\ written' = IF o.segs = <<>> THEN written
                         ELSE Append(written, [id |-> id, via |-> "send_line"])
           /\ wstate' = IF ~s.ok THEN "refused"
                        ELSE IF ~o.ok THEN "send_failed"
                        ELSE "open"
  /\ UNCHANGED <<rbuf, returned, rpc, rfd, close_raised, svars, dvars,
                 pvars>>

\* A writer that is not a TcpGame writes Texts[id] ended by CRLF (as
\* test_recv_accepts_crlf_and_coalesced_packets does with sendall).
SendRaw(id) ==
  /\ ~IsClosed(wstate)
  /\ rfd = "open"
  /\ Len(written) < MaxLines
  /\ LET data == join(encode_utf8(Texts[id]), <<run(CR, 1), run(LF, 1)>>)
     IN  \E o \in sendall_outcomes(data, fd_of(rfd)) :
           /\ inflight' = inflight \o o.segs
           /\ written' = Append(written, [id |-> id, via |-> "crlf"])
  /\ UNCHANGED <<rbuf, returned, rpc, wstate, rfd, close_raised,
                 svars, dvars, pvars>>

\* The writer's program ends in the middle of a line: the bytes of Texts[id]
\* are written without a terminator, as the last write of the stream.
SendPartial(id) ==
  /\ ~IsClosed(wstate)
  /\ rfd = "open"
  /\ Len(written) < MaxLines
  /\ encode_utf8(Texts[id]) # <<>>
  /\ inflight' = Append(inflight, encode_utf8(Texts[id]))
  /\ written' = Append(written, [id |-> id, via |-> "partial"])
  /\ UNCHANGED <<rbuf, returned, rpc, wstate, rfd, close_raised,
                 svars, dvars, pvars>>

\* What self._sock.shutdown(SHUT_RDWR) does at a socket whose descriptor is
\* fd and whose peer's is peer: it fails on a closed descriptor, and it may
\* fail (ENOTCONN) once the peer has gone.
shutdown_outcomes(fd, peer) ==
  IF fd = "closed" THEN {"OSError"}
  ELSE IF peer = "closed" THEN {"ok", "OSError"}
  ELSE {"ok"}

\* close that lets the error of shutdown out.
TcpGame_close_unguarded(fd, shut) ==
  [fd |-> "closed", raised |-> shut = "OSError"]

\* TcpGame.close, lines 95-105, where shutdown had the outcome shut: the
\* OSError of shutdown is passed over, the descriptor is closed in the
\* finally clause and an OSError there is passed over too.
TcpGame_close(fd, shut) ==
  [fd |-> "closed", raised |-> FALSE]

\* The state of a socket in state st after a call of close that left the
\* descriptor fd.
after_close(st, fd) ==
  IF fd = "open" THEN st ELSE IF IsClosed(st) THEN "closed_again" ELSE "closed"

\* The writer calls close.
WriterClose ==
  /\ \E shut \in shutdown_outcomes(fd_of(wstate), fd_of(rfd)) :
       LET c == TcpGame_close(fd_of(wstate), shut)
       IN  /\ wstate' = after_close(wstate, c.fd)
           /\ close_raised' = (close_raised \/ c.raised)
  /\ UNCHANGED <<inflight, rbuf, written, returned, rpc, rfd, svars, dvars,
                 pvars>>

\* The reader calls close between two calls of recv_line; what was written
\* and not read is lost.
ReaderClose ==
  /\ rpc # "loop"
  /\ \E shut \in shutdown_outcomes(fd_of(rfd), fd_of(wstate)) :
       LET c == TcpGame_close(fd_of(rfd), shut)
       IN  /\ rfd' = after_close(rfd, c.fd)
           /\ close_raised' = (close_raised \/ c.raised)
  /\ inflight' = <<>>
  /\ UNCHANGED <<rbuf, written, returned, rpc, wstate, svars, dvars, pvars>>

\* The reader calls recv_line.
CallRecvLine ==
  /\ rpc = "idle"
  /\ rpc' = "loop"
  /\ UNCHANGED <<inflight, rbuf, written, returned, wstate, rfd,
                 close_raised, svars, dvars, pvars>>

\* lines 67-76: a full line is buffered; cut it off, strip the terminator,
\* decode and return
ReturnLine ==
  /\ rpc = "loop"
  /\ find(rbuf, LF) # 0
  /\ LET nl == find(rbuf, LF)
         got == decode_utf8(strip_eol(take(rbuf, nl)))
     IN  /\ rbuf' = drop(rbuf, nl)
         /\ IF got.ok
            THEN /\ returned' = Append(returned, text_id(got.text))
                 /\ rpc' = "idle"
            ELSE /\ returned' = returned
                 /\ rpc' = "UnicodeDecodeError"
  /\ UNCHANGED <<inflight, written, wstate, rfd, close_raised, svars,
                 dvars, pvars>>

\* lines 78-79: no newline buffered and the buffer at the limit
TooLong ==
  /\ rpc = "loop"
  /\ find(rbuf, LF) = 0
  /\ size(rbuf) >= MAX_LINE_LEN
  /\ rpc' = "too_long"
  /\ UNCHANGED <<inflight, rbuf, written, returned, wstate, rfd,
                 close_raised, svars, dvars, pvars>>

\* lines 82-93: recv returns the first n segments in flight, at most
\* RECV_MAX bytes
RecvChunk ==
  /\ rpc = "loop"
  /\ find(rbuf, LF) = 0
  /\ size(rbuf) < MAX_LINE_LEN
  /\ rfd = "open"
  /\ inflight # <<>>
  /\ \E n \in 1..Len(inflight) :
       LET data == concat(SubSeq(inflight, 1, n))
       IN  IF size(data) <= RECV_MAX
           THEN /\ rbuf' = join(rbuf, data)
                /\ inflight' = SubSeq(inflight, n + 1, Len(inflight))
           ELSE /\ n = 1
                /\ rbuf' = join(rbuf, take(data, RECV_MAX))
                /\ inflight' = <<drop(data, RECV_MAX)>> \o Tail(inflight)
  /\ UNCHANGED <<written, returned, rpc, wstate, rfd, close_raised,
                 svars, dvars, pvars>>

\* recv_line that reads from the socket before it looks into its buffer.
RecvEmpty_before_buffer ==
  /\ rpc = "loop"
  /\ size(rbuf) < MAX_LINE_LEN
  /\ rfd = "open"
  /\ inflight = <<>>
  /\ IsClosed(wstate)
  /\ rpc' = "closed"
  /\ UNCHANGED <<inflight, rbuf, written, returned, wstate, rfd,
                 close_raised, svars, dvars, pvars>>

\* lines 89-91: recv returns no bytes, the writer has closed
RecvEmpty ==
  /\ rpc = "loop"
  /\ find(rbuf, LF) = 0
  /\ size(rbuf) < MAX_LINE_LEN
  /\ rfd = "open"
  /\ inflight = <<>>
  /\ IsClosed(wstate)
  /\ rpc' = "closed"
  /\ UNCHANGED <<inflight, rbuf, written, returned, wstate, rfd,
                 close_raised, svars, dvars, pvars>>

\* lines 84-85: nothing arrives within the socket timeout
RecvLineTimeout ==
  /\ rpc = "loop"
  /\ find(rbuf, LF) = 0
  /\ size(rbuf) < MAX_LINE_LEN
  /\ rfd = "open"
  /\ inflight = <<>>
  /\ ~IsClosed(wstate)
  /\ rpc' = "timeout"
  /\ UNCHANGED <<inflight, rbuf, written, returned, wstate, rfd,
                 close_raised, svars, dvars, pvars>>

\* lines 86-87: recv on the reader's closed socket raises OSError
RecvOSError ==
  /\ rpc = "loop"
  /\ find(rbuf, LF) = 0
  /\ size(rbuf) < MAX_LINE_LEN
  /\ IsClosed(rfd)
  /\ rpc' = "OSError"
  /\ UNCHANGED <<inflight, rbuf, written, returned, wstate, rfd,
                 close_raised, svars, dvars, pvars>>

(***************************************************************************)
(* protocol.py called on one input.                                        *)
(***************************************************************************)
\* n times the character ch
rep_char(ch, n) == [i \in 1..n |-> ch]

\* What may stand before the coordinates of a MOVE line.
MovePrefixes ==
  { MOVE \o <<":">>, MOVE, <<"m", "o", "v", "e", ":">>,
    <<" ">> \o MOVE \o <<":">> }

\* What may stand for a coordinate: numbers in and out of range, signs,
\* leading zeros, blanks, a digit outside ASCII, no digit, and strings of
\* INT_MAX_STR_DIGITS digits and of one more.
IntTexts ==
  { <<"0">>, <<"7">>, <<"8">>, <<"-", "1">>, <<"-", "0">>, <<"0", "7">>,
    <<"1", "0">>, <<"x">>, <<>>, <<" ", "3">>, <<"+", "3">>,
    <<ARABIC_INDIC_THREE>>,
    rep_char("0", INT_MAX_STR_DIGITS - 1) \o <<"7">>,
    rep_char("0", INT_MAX_STR_DIGITS) \o <<"7">>,
    rep_char("9", INT_MAX_STR_DIGITS + 1) }

Separators == { <<",">>, <<",", " ">>, <<";">>, <<>> }

\* What may follow: nothing, line terminators, a blank, more text.
Suffixes ==
  { <<>>, <<"\n">>, <<"\r", "\n">>, <<"\r">>, <<"\n", "\n">>, <<" ">>,
    <<",", "3">>, <<"\n", "x">> }

MoveLines ==
  { pre \o a \o sep \o b \o suf :
      pre \in MovePrefixes, a \in IntTexts, sep \in Separators,
      b \in {<<"0">>, <<"7">>, <<"8">>, <<"x">>, <<>>,
             rep_char("9", INT_MAX_STR_DIGITS + 1)},
      suf \in Suffixes }

\* Tokens, near misses, and what may stand around them.
TokenTexts ==
  { PASS, YOU_WIN, YOU_LOSE, DRAW, ERROR, <<"W", "I", "N">>,
    <<"p", "a", "s", "s">>, <<"Y", "O", "U", " ", " ", "W", "I", "N">>,
    <<"Y", "O", "U", "W", "I", "N">>, PASS \o <<"X">>, <<>> }

TokenLines ==
  { pre \o tok \o suf :
      pre \in {<<>>, <<" ">>, <<"\n">>, <<"\t">>},
      tok \in TokenTexts,
      suf \in Suffixes \cup {<<"\t">>, <<"\r", "\r", "\n">>, <<" ", "\n">>,
                             <<"\n", " ">>} }

\* NEW GAME payloads.
NewGameLines ==
  { NEW_GAME \o sep \o a \o suf :
      sep \in {<<":">>, <<>>, <<":", " ">>},
      a \in IntTexts \cup {IntStr(PORT_MIN), IntStr(PORT_MAX + 1),
                           <<"0">> \o IntStr(PORT_MAX)},
      suf \in {<<>>, <<"\n">>, <<" ">>} }

CodecInputs ==
  {[kind |-> "coord", row |-> rc[1], col |-> rc[2]] :
     rc \in ((ROW_MIN - 1)..(ROW_MAX + 1)) \X ((COL_MIN - 1)..(COL_MAX + 1))}
  \cup {[kind |-> "port", port |-> p] : p \in (PORT_MIN - 1)..(PORT_MAX + 1)}
  \cup {[kind |-> "line", line |-> l] :
          l \in MoveLines \cup TokenLines \cup NewGameLines}

\* encode_move(row, col)
EncodeMove ==
  /\ cin.kind = "coord"
  /\ cout = NoResult
  /\ cout' = [fn |-> "encode_move", res |-> encode_move(cin.row, cin.col)]
  /\ UNCHANGED <<cin, tboard, plies, query, svars, dvars, tvars>>

\* decode_move on the input line, or on the line encode_move has given
DecodeMove ==
  /\ \/ cin.kind = "line" /\ cout = NoResult
        /\ cout' = [fn |-> "decode_move", res |-> decode_move(cin.line)]
     \/ cout.fn = "encode_move" /\ cout.res.ok
        /\ cout' = [fn |-> "decode_move", res |-> decode_move(cout.res.line)]
  /\ UNCHANGED <<cin, tboard, plies, query, svars, dvars, tvars>>

\* encode_new_game(port)
EncodeNewGame ==
  /\ cin.kind = "port"
  /\ cout = NoResult
  /\ cout' = [fn |-> "encode_new_game", res |-> encode_new_game(cin.port)]
  /\ UNCHANGED <<cin, tboard, plies, query, svars, dvars, tvars>>

\* decode_new_game on the input line, or on the payload encode_new_game has
\* given
DecodeNewGame ==
  /\ \/ cin.kind = "line" /\ cout = NoResult
        /\ cout' = [fn |-> "decode_new_game",
                    res |-> decode_new_game(cin.line)]
     \/ cout.fn = "encode_new_game" /\ cout.res.ok
        /\ cout' = [fn |-> "decode_new_game",
                    res |-> decode_new_game(cout.res.line)]
  /\ UNCHANGED <<cin, tboard, plies, query, svars, dvars, tvars>>

\* decode_token(line)
DecodeToken ==
  /\ cin.kind = "line"
  /\ cout = NoResult
  /\ cout' = [fn |-> "decode_token", res |-> decode_token(cin.line)]
  /\ UNCHANGED <<cin, tboard, plies, query, svars, dvars, tvars>>

\* is_token(line)
IsToken ==
  /\ cin.kind = "line"
  /\ cout = NoResult
  /\ cout' = [fn |-> "is_token", res |-> is_token(cin.line)]
  /\ UNCHANGED <<cin, tboard, plies, query, svars, dvars, tvars>>

(***************************************************************************)
(* game/rules.py called on one board.                                      *)
(***************************************************************************)
\* Row 0 holds a run of White closed by Black at its far end, column 0 a
\* run of White that reaches the edge, the diagonal one White stone before
\* an Empty cell.
EdgeBoard ==
  from_rows([r \in 1..SIZE |-> [c \in 1..SIZE |->
    IF r = 1 /\ c = 1 THEN EMPTY
    ELSE IF r = 1 /\ c = SIZE THEN BLACK
    ELSE IF r = 1 \/ c = 1 \/ (r = 2 /\ c = 2) THEN WHITE
    ELSE EMPTY]])

\* Every cell but two opposite corners filled, the colours alternating.
AlmostFull ==
  from_rows([r \in 1..SIZE |-> [c \in 1..SIZE |->
    IF (r = 1 /\ c = 1) \/ (r = SIZE /\ c = SIZE) THEN EMPTY
    ELSE IF (r + c) % 2 = 0 THEN BLACK
    ELSE WHITE]])

\* The starting position with all four stones Black: Empty cells, and no
\* move for either colour.
NoMoves ==
  from_rows([r \in 1..SIZE |-> [c \in 1..SIZE |->
    IF initial_cell(r - 1, c - 1) = EMPTY THEN EMPTY ELSE BLACK]])

\* The board of test_pass_detection_and_game_over_progression: all Black but
\* a White island of three and one Empty cell next to it.
IslandBoard ==
  from_rows([r \in 1..SIZE |-> [c \in 1..SIZE |->
    IF <<r - 1, c - 1>> \in {<<3, 3>>, <<3, 4>>, <<4, 3>>} THEN WHITE
    ELSE IF <<r - 1, c - 1>> = <<4, 4>> THEN EMPTY
    ELSE BLACK]])

StartBoards == {initial, EdgeBoard, AlmostFull, NoMoves, IslandBoard}

\* The targets of a query: every cell and the ring around the board.
Targets == (-1..SIZE) \X (-1..SIZE)

\* A move is applied to the board under test.
Play(player, r, c) ==
  /\ query = NoQuery
  /\ plies < MaxPlies
  /\ apply_move(tboard, player, r, c).ok
  /\ tboard' = apply_move(tboard, player, r, c).board
  /\ plies' = plies + 1
  /\ query' = NoQuery
  /\ UNCHANGED <<cin, cout, svars, dvars, tvars>>

\* flips_for_move and apply_move are called for player at (r,c); the board
\* under test is the argument of both and stays as it is.
QueryMove(player, r, c) ==
  /\ query = NoQuery
  /\ query' = [fn |-> "apply_move", player |-> player, r |-> r, c |-> c,
               flips |-> flips_for_move(tboard, player, r, c),
               applied |-> apply_move(tboard, player, r, c)]
  /\ UNCHANGED <<tboard, plies, cin, cout, svars, dvars, tvars>>

\* valid_moves is called for player.
QueryValidMoves(player) ==
  /\ query = NoQuery
  /\ query' = [fn |-> "valid_moves", player |-> player,
               moves |-> valid_moves(tboard, player)]
  /\ UNCHANGED <<tboard, plies, cin, cout, svars, dvars, tvars>>

\* is_game_over is called.
QueryGameOver ==
  /\ query = NoQuery
  /\ query' = [fn |-> "is_game_over", player |-> "either",
               over |-> is_game_over(tboard)]
  /\ UNCHANGED <<tboard, plies, cin, cout, svars, dvars, tvars>>

\* The caller is done with the result of its call.
Return ==
  /\ query # NoQuery
  /\ query' = NoQuery
  /\ UNCHANGED <<tboard, plies, cin, cout, svars, dvars, tvars>>

(***************************************************************************)
(* Properties of the rules.                                                *)
(***************************************************************************)
\* The k cells after (r,c) in direction d hold the opposite colour and the
\* cell after them holds player: a run closed by a player stone, no Empty
\* cell in between.
Bracketed(B, player, r, c, d, k) ==
  /\ k >= 1
  /\ in_bounds(r + (k + 1) * d[1], c + (k + 1) * d[2])
  /\ cell(B, r + (k + 1) * d[1], c + (k + 1) * d[2]) = player
  /\ \A i \in 1..k :
       cell(B, r + i * d[1], c + i * d[2]) = opponent(player)

\* The union over the eight directions of the bracketed runs next to an
\* Empty target in bounds.
BracketedRuns(B, player, r, c) ==
  IF ~in_bounds(r, c) THEN {}
  ELSE IF cell(B, r, c) # EMPTY THEN {}
  ELSE UNION {{<<r + i * DIRS[j][1], c + i * DIRS[j][2]>> : i \in 1..k} :
                <<j, k>> \in {jk \in (1..Len(DIRS)) \X (1..(SIZE - 2)) :
                               Bracketed(B, player, r, c, DIRS[jk[1]], jk[2])}}

Legal(B, player, r, c) == BracketedRuns(B, player, r, c) # {}

\* The number of cells of board B holding colour.
stones(B, colour) ==
  Cardinality({n \in Cells : cell(B, n[1], n[2]) = colour})

\* C26: apply_move on a legal move returns a board in which the target and
\* every cell of the flip set hold the mover's colour and every other cell
\* is the cell of the input board; the mover's count grows by |flip set| + 1,
\* the opposite colour's count drops by |flip set|, and the number of Empty
\* cells drops by 1.
C26_ApplyMoveEffect ==
  (query.fn = "apply_move" /\ Legal(tboard, query.player, query.r, query.c)) =>
    LET C == query.player
        F == query.flips
        N == query.applied.board
    IN  /\ query.applied.ok
        /\ \A n \in Cells :
             cell(N, n[1], n[2]) =
               IF n = <<query.r, query.c>> \/ n \in F THEN C
               ELSE cell(tboard, n[1], n[2])
        /\ stones(N, C) = stones(tboard, C) + Cardinality(F) + 1
        /\ stones(N, opponent(C)) = stones(tboard, opponent(C)) - Cardinality(F)
        /\ stones(N, EMPTY) = stones(tboard, EMPTY) - 1

\* A legal move that flips stones in two directions has been applied.
C26_Witness ==
  /\ query.fn = "apply_move"
  /\ query.applied.ok
  /\ Cardinality(query.flips) >= 2
  /\ \E f \in query.flips, g \in query.flips :
       f[1] # g[1] /\ f[2] # g[2]

\* The coordinates of a list of moves.
coords(moves) == {moves[i] : i \in 1..Len(moves)}

\* C27: a coordinate is in valid_moves(B, C) if and only if apply_move(B, C,
\* r, c) succeeds, and valid_moves(B, C) is empty exactly when no coordinate
\* makes apply_move succeed.
C27_ValidMovesExact ==
  query.fn = "valid_moves" =>
    /\ \A rc \in Targets :
         rc \in coords(query.moves)
           <=> apply_move(tboard, query.player, rc[1], rc[2]).ok
    /\ query.moves = <<>>
         <=> \A rc \in Targets : ~apply_move(tboard, query.player, rc[1], rc[2]).ok

\* valid_moves returned some moves and left out an Empty cell next to an
\* opponent stone.
C27_Witness ==
  /\ query.fn = "valid_moves"
  /\ Len(query.moves) >= 2
  /\ adj_candidates(tboard, query.player) \ coords(query.moves) # {}

\* valid_moves returned no move on a board with Empty cells.
C27_WitnessEmpty ==
  /\ query.fn = "valid_moves"
  /\ query.moves = <<>>
  /\ stones(tboard, EMPTY) > 0

\* C28: flips_for_move returns exactly the union over the eight directions
\* of the runs of one or more opposite-colour cells that start next to the
\* target and are closed by a cell of the mover's colour, and nothing when
\* the target is out of bounds, when it is not Empty, or when no direction
\* is closed by the mover's colour before an Empty cell or the edge.
C28_FlipsAreBracketedRuns ==
  query.fn = "apply_move" =>
    /\ query.flips = BracketedRuns(tboard, query.player, query.r, query.c)
    /\ ~in_bounds(query.r, query.c) => query.flips = {}
    /\ (in_bounds(query.r, query.c) /\ cell(tboard, query.r, query.c) # EMPTY)
         => query.flips = {}
    /\ (\A j \in 1..Len(DIRS), k \in 1..(SIZE - 2) :
          ~Bracketed(tboard, query.player, query.r, query.c, DIRS[j], k))
         => query.flips = {}

\* flips_for_move returned a run of several stones in one direction and left
\* alone an opponent stone next to the target in another.
C28_Witness ==
  /\ query.fn = "apply_move"
  /\ \E f \in query.flips :
       /\ f[1] - query.r \in {-2, 0, 2}
       /\ f[2] - query.c \in {-2, 0, 2}
  /\ \E j \in 1..Len(DIRS) :
       /\ in_bounds(query.r + DIRS[j][1], query.c + DIRS[j][2])
       /\ cell(tboard, query.r + DIRS[j][1], query.c + DIRS[j][2])
            = opponent(query.player)
       /\ <<query.r + DIRS[j][1], query.c + DIRS[j][2]>> \notin query.flips

\* flips_for_move was asked about a target outside the board.
C28_WitnessOutside ==
  /\ query.fn = "apply_move"
  /\ ~in_bounds(query.r, query.c)
  /\ query.flips = {}

\* C29: apply_move on a move that is not legal (target occupied, target out
\* of bounds, or no bracketed run) fails with IllegalMoveError, and the board
\* it was given is the same board after the call.
C29_IllegalMoveFails ==
  [][(/\ query'.fn = "apply_move"
      /\ query.fn = "none"
      /\ ~Legal(tboard, query'.player, query'.r, query'.c))
       => /\ ~query'.applied.ok
          /\ tboard' = tboard]_vars

\* apply_move failed on an Empty target in bounds that has an opponent stone
\* next to it.
C29_Witness ==
  /\ query.fn = "apply_move"
  /\ ~query.applied.ok
  /\ <<query.r, query.c>> \in adj_candidates(tboard, query.player)

\* apply_move failed on an occupied target.
C29_WitnessOccupied ==
  /\ query.fn = "apply_move"
  /\ ~query.applied.ok
  /\ in_bounds(query.r, query.c)
  /\ cell(tboard, query.r, query.c) # EMPTY

\* apply_move failed on a target outside the board.
C29_WitnessOutside ==
  /\ query.fn = "apply_move"
  /\ ~query.applied.ok
  /\ ~in_bounds(query.r, query.c)

\* C30: is_game_over(B) is true if and only if B has no Empty cell or
\* neither Black nor White has a legal move on B.
C30_GameOverExact ==
  query.fn = "is_game_over" =>
    (query.over <=>
       \/ stones(tboard, EMPTY) = 0
       \/ \A C \in {BLACK, WHITE}, rc \in Cells : ~Legal(tboard, C, rc[1], rc[2]))

\* is_game_over answered on a board where one colour has to pass and the
\* other can move.
C30_Witness ==
  /\ query.fn = "is_game_over"
  /\ ~query.over
  /\ \E C \in {BLACK, WHITE} :
       /\ ~has_any_move(tboard, C)
       /\ has_any_move(tboard, opponent(C))

\* is_game_over answered true on a board with Empty cells.
C30_WitnessStuck ==
  /\ query.fn = "is_game_over"
  /\ query.over
  /\ stones(tboard, EMPTY) > 0

\* is_game_over answered true on a full board reached by a move.
C30_WitnessFull ==
  /\ query.fn = "is_game_over"
  /\ query.over
  /\ stones(tboard, EMPTY) = 0
  /\ plies > 0

\* C31: Board.initial() has Black at (3,4) and (4,3), White at (3,3) and
\* (4,4) and every other cell Empty; on it valid_moves returns exactly four
\* moves for Black and exactly four for White, and the two sets differ.
C31_InitialBoard ==
  (tboard = initial /\ query.fn = "valid_moves") =>
    /\ \A n \in Cells :
         cell(tboard, n[1], n[2]) =
           IF n \in {<<3, 4>>, <<4, 3>>} THEN BLACK
           ELSE IF n \in {<<3, 3>>, <<4, 4>>} THEN WHITE
           ELSE EMPTY
    /\ Len(query.moves) = 4
    /\ Cardinality(coords(query.moves)) = 4
    /\ Cardinality(coords(valid_moves(tboard, opponent(query.player)))) = 4
    /\ coords(query.moves) # coords(valid_moves(tboard, opponent(query.player)))

\* valid_moves was called for White on the starting position.
C31_Witness ==
  /\ tboard = initial
  /\ plies = 0
  /\ query.fn = "valid_moves"
  /\ query.player = WHITE
  /\ Len(query.moves) = 4

(***************************************************************************)
(* Properties of the codec.                                                *)
(***************************************************************************)

\* C23: for every (r,c) with 0 <= r,c <= 7 encode_move succeeds and
\* decode_move on its line gives (r,c) back; for every port in 9000..9100
\* encode_new_game succeeds and decode_new_game on its payload gives the
\* port back.
C23_CodecRoundTrip ==
  /\ (cin.kind = "coord" /\ cin.row \in 0..7 /\ cin.col \in 0..7) =>
       /\ cout.fn = "encode_move" => cout.res.ok
       /\ cout.fn = "decode_move" =>
            cout.res.ok /\ cout.res.row = cin.row /\ cout.res.col = cin.col
  /\ (cin.kind = "port" /\ cin.port \in 9000..9100) =>
       /\ cout.fn = "encode_new_game" => cout.res.ok
       /\ cout.fn = "decode_new_game" =>
            cout.res.ok /\ cout.res.port = cin.port

\* The last port of the range has gone through encode_new_game and
\* decode_new_game.
C23_WitnessPort ==
  /\ cin = [kind |-> "port", port |-> 9100]
  /\ cout.fn = "decode_new_game"
  /\ cout.res.port = 9100

\* A coordinate pair with different row and column has gone through
\* encode_move and decode_move.
C23_Witness ==
  /\ cin = [kind |-> "coord", row |-> 7, col |-> 0]
  /\ cout.fn = "decode_move"
  /\ cout.res.row = 7

\* The length of s[1..i] without the line terminators at its end.
RECURSIVE kept(_, _)
kept(s, i) ==
  IF i = 0 THEN 0
  ELSE IF s[i] \notin {"\r", "\n"} THEN i
  ELSE kept(s, i - 1)

\* The string s without the line terminators at its end.
WithoutTerminators(s) == SubSeq(s, 1, kept(s, Len(s)))

\* s writes a decimal integer in 0..7: an optional minus sign, then one or
\* more decimal digits of which all but the last are zero and the last is at
\* most 7, and zero after a minus sign.
DecimalIn0To7(s) ==
  LET body == IF Len(s) > 0 /\ s[1] = "-" THEN Tail(s) ELSE s
  IN  /\ Len(body) > 0
      /\ \A i \in 1..Len(body) : IsDigit(body[i])
      /\ \A i \in 1..(Len(body) - 1) : DigitVal(body[i]) = 0
      /\ DigitVal(body[Len(body)]) <= 7
      /\ body # s => DigitVal(body[Len(body)]) = 0

\* The line has the shape MOVE:r,c with r and c decimal integers in 0..7,
\* line terminators at its end aside.
HasMoveShape(line) ==
  LET s == WithoutTerminators(line)
      head == MOVE \o <<":">>
  IN  /\ Len(s) > Len(head)
      /\ SubSeq(s, 1, Len(head)) = head
      /\ \E k \in (Len(head) + 1)..Len(s) :
           /\ s[k] = ","
           /\ DecimalIn0To7(SubSeq(s, Len(head) + 1, k - 1))
           /\ DecimalIn0To7(SubSeq(s, k + 1, Len(s)))

\* C24: decode_move succeeds exactly on the lines of the shape MOVE:r,c with
\* r and c decimal integers in 0..7, and on every other line it raises
\* ProtocolError.
C24_DecodeMoveExact ==
  (cin.kind = "line" /\ cout.fn = "decode_move") =>
    /\ cout.res.ok <=> HasMoveShape(cin.line)
    /\ ~cout.res.ok => cout.res.err = "ProtocolError"

\* The five tokens.
Tokens == {PASS, YOU_WIN, YOU_LOSE, DRAW, ERROR}

C25_WitnessBlank ==
  /\ cin = [kind |-> "line", line |-> PASS \o <<" ">>]
  /\ cout.fn = "decode_token"
  /\ ~cout.res.ok

(***************************************************************************)
(* Properties of the line transport.                                       *)
(***************************************************************************)

\* The strings returned so far are the strings written, in order.
ReturnedInOrder ==
  /\ Len(returned) <= Len(written)
  /\ \A i \in 1..Len(returned) : returned[i] = written[i].id

\* The write whose line the reader is waiting for.
Pending == written[Len(returned) + 1]

\* The bytes of the write w that come before its LF.
BytesBeforeLF(w) ==
  size(encode_utf8(Texts[w.id])) + (IF w.via = "crlf" THEN 1 ELSE 0)

C20_NeverReturnsLongLine ==
  \A i \in 1..Len(returned) :
    returned[i] # 0 => size(encode_utf8(Texts[returned[i]])) <= MAX_LINE_LEN

\* C21: a call of send_line with a string that holds CR or LF raises
\* ProtocolError and writes no byte: in the step of the refused call nothing
\* enters the stream, and the buffer, the results and the position of the
\* peer's recv_line are as before.
C21_RefusedWritesNothing ==
  [][(wstate # "refused" /\ wstate' = "refused") =>
       /\ inflight' = inflight
       /\ written' = written
       /\ rbuf' = rbuf
       /\ returned' = returned
       /\ rpc' = rpc]_vars

\* send_line has refused a string while the peer is inside recv_line and
\* the line sent before is still on its way.
C21_Witness ==
  /\ wstate = "refused"
  /\ Len(written) = 1
  /\ written[1].via = "send_line"
  /\ inflight # <<>>
  /\ rpc = "loop"
  /\ returned = <<>>

\* C22: no call of close raises, whatever happened to the stream before,
\* and a socket once closed stays closed.
C22_CloseIdempotent ==
  [][/\ ~close_raised'
     /\ IsClosed(wstate) => IsClosed(wstate')
     /\ IsClosed(rfd) => IsClosed(rfd')]_vars

\* Both ends have called close on their closed socket, the reader after a
\* call of recv_line that failed.
C22_Witness ==
  /\ wstate = "closed_again"
  /\ rfd = "closed_again"
  /\ rpc \in {"too_long", "closed", "timeout", "OSError"}
  /\ ~close_raised

(***************************************************************************)
(* Specifications.  Spec: the transport fails only as a consequence of a   *)
(* close.  SpecFaulty: any write may also fail and any read may time out.  *)
(***************************************************************************)
\* The session as run_network_game sets it up.
SessionInit ==
  /\ board = [d \in Peers |-> initial]
  /\ to_move = [d \in Peers |-> BLACK]
  /\ move_num = [d \in Peers |-> 1]
  /\ consecutive_passes = [d \in Peers |-> 0]
  /\ status = [d \in Peers |-> RUNNING]
  /\ closed = [d \in Peers |-> FALSE]
  /\ chan = [d \in Peers |-> <<>>]
  /\ rst = [d \in Peers |-> FALSE]
  /\ announced = [d \in Peers |-> <<>>]
  /\ lastOp = [d \in Peers |-> "none"]
  /\ lastRecv = [d \in Peers |-> <<>>]
  /\ nrecv = [d \in Peers |-> 0]
  /\ lastSent = [d \in Peers |-> <<>>]
  /\ nsent = [d \in Peers |-> 0]
  /\ wfail = [d \in Peers |-> FALSE]
  /\ rogueLeft = MaxRogueLines

\* A session starts when matchmaking has paired peer 1 as P1 with peer 2 as P2.
\* discover_and_connect has returned at both peers: peer 1 as P1 with the
\* accepted end of the connection, peer 2 as P2.
Matched ==
  /\ dpc = [p \in Peers |-> role(p)]
  /\ dop = [p \in Peers |-> "none"]
  /\ lost = FALSE
  /\ attempt = [p \in Peers |-> 1]
  /\ udpq = [p \in Peers |-> <<>>]
  /\ listener = [p \in Peers |->
                   [open |-> FALSE, port |-> PORT_MIN, gen |-> 1, backlog |-> <<>>]]
  /\ clock = [p \in Peers |-> my_advert_ts]
  /\ ip = [p \in Peers |-> IF p = 1 THEN IP_A ELSE IP_B]
  /\ my_ip_guess = ip
  /\ conn = [p \in Peers |-> [from |-> 2, to |-> 1, gen |-> 1]]

Init ==
  /\ SessionInit
  /\ TransportIdle
  /\ PureIdle
  /\ rogue \in {0, 1, 2}
  /\ Matched

Next ==
  \E d \in Peers :
    \/ Finish(d, FALSE)
    \/ LocalPass(d, FALSE)
    \/ LocalQuit(d, FALSE)
    \/ LocalMove(d, FALSE)
    \/ Recv(d, FALSE)
    \/ RecvClosed(d)
    \/ RogueSend(d)
    \/ RogueRecv(d)
    \/ RogueClose(d)

Spec == Init /\ [][Next]_vars

NextFaulty ==
  \E d \in Peers :
    \/ \E fault \in BOOLEAN : Finish(d, fault)
    \/ \E fault \in BOOLEAN : LocalPass(d, fault)
    \/ \E fault \in BOOLEAN : LocalQuit(d, fault)
    \/ \E fault \in BOOLEAN : LocalMove(d, fault)
    \/ \E fault \in BOOLEAN : Recv(d, fault)
    \/ RecvClosed(d)
    \/ RecvTimeout(d)
    \/ RogueSend(d)
    \/ RogueRecv(d)
    \/ RogueClose(d)

SpecFaulty == Init /\ [][NextFaulty]_vars

\* Two drivers whose UI always chooses a move, on a transport that does not
\* fail: one iteration of the loop of driver d.
HonestStep(d) ==
  \/ Finish(d, FALSE)
  \/ LocalPass(d, FALSE)
  \/ LocalMove(d, FALSE)
  \/ Recv(d, FALSE)

HonestInit == Init /\ rogue = 0

HonestNext == \E d \in Peers : HonestStep(d)

\* Driver d is in recv_line (or about to call it) with nothing to read.
WaitsForLine(d) ==
  /\ status[d] = RUNNING
  /\ ~is_game_over(board[d])
  /\ to_move[d] # my_color(d)
  /\ chan[d] = <<>>

\* The guard of HonestStep(d): the driver runs and is not blocked in
\* recv_line.
Runnable(d) == status[d] = RUNNING /\ ~WaitsForLine(d)

\* Each driver is a running process: an iteration that stays possible is
\* taken.  This is weak fairness of HonestStep(d), WF_vars(HonestStep(d)),
\* with ENABLED <<HonestStep(d)>>_vars written out as Runnable(d).
SpecHonest ==
  /\ HonestInit
  /\ [][HonestNext]_vars
  /\ \A d \in Peers : []<>(~Runnable(d)) \/ []<><<HonestStep(d)>>_vars

\* Matchmaking: both peers enter discover_and_connect; the session has not
\* begun.
DiscInit ==
  /\ SessionInit
  /\ TransportIdle
  /\ PureIdle
  /\ rogue = 0
  /\ dpc = [p \in Peers |-> "passive"]
  /\ dop = [p \in Peers |-> "none"]
  /\ lost = FALSE
  /\ attempt = [p \in Peers |-> 1]
  /\ udpq = [p \in Peers |-> <<>>]
  /\ listener = [p \in Peers |-> NoListener]
  /\ clock = [p \in Peers |-> my_advert_ts]
  /\ ip \in [Peers -> Hosts]
  /\ ip[1] = IP_A
  /\ my_ip_guess \in [Peers -> Hosts \cup {IP_LOOPBACK}]
  /\ \A p \in Peers : my_ip_guess[p] \in {ip[p], IP_LOOPBACK}
  /\ my_ip_guess[2] = ip[2]
  /\ conn = [p \in Peers |-> NoConn]

DiscNext ==
  \E p \in Peers :
    \/ PassiveRecv(p)
    \/ PassiveTimeout(p)
    \/ \E reliable \in BOOLEAN : Advertise(p, reliable)
    \/ Tick(p)
    \/ ActiveAccept(p)
    \/ ActiveRecvAdvert(p)
    \/ SelectClosed(p)
    \/ ActiveTimeout(p)
    \/ ReturnP2(p)

SpecDiscovery == DiscInit /\ [][DiscNext]_vars

\* Matchmaking on a network that delivers every advert and on hosts whose
\* calls do not fail.
DiscNextReliable ==
  \E p \in Peers :
    \/ PassiveRecv(p)
    \/ PassiveTimeout(p)
    \/ Advertise(p, TRUE)
    \/ Tick(p)
    \/ ActiveAccept(p)
    \/ ActiveRecvAdvert(p)
    \/ SelectClosed(p)
    \/ ActiveTimeout(p)
    \/ ReturnP2(p)

\* Each peer is a running process: it takes the step it is at, its clock
\* advances, and a select that finds a socket readable handles it.
DiscFairness ==
  \A p \in Peers :
    /\ WF_vars(PassiveRecv(p))
    /\ WF_vars(PassiveTimeout(p))
    /\ WF_vars(Advertise(p, TRUE))
    /\ WF_vars(Tick(p))
    /\ SF_vars(ActiveAccept(p))
    /\ SF_vars(ActiveRecvAdvert(p))
    /\ SF_vars(SelectClosed(p))
    /\ WF_vars(ActiveTimeout(p))
    /\ WF_vars(ReturnP2(p))

SpecDiscoveryFair == DiscInit /\ [][DiscNextReliable]_vars /\ DiscFairness

(***************************************************************************)
(* Properties of matchmaking.                                              *)
(***************************************************************************)
\* C1: whenever both peers have returned from discover_and_connect, one
\* returned P1 and the other P2, and the connection P1 accepted on its
\* listener is the connection P2 initiated.
C1_ExactlyOnePair ==
  (dpc[1] \in Roles /\ dpc[2] \in Roles)
  => \E a \in Peers :
       /\ dpc[a] = "P1" /\ dpc[Other(a)] = "P2"
       /\ conn[a] = conn[Other(a)]
       /\ conn[a].from = Other(a) /\ conn[a].to = a

\* C1 witness: both have returned, and the peer that returned P2 had itself
\* advertised in this attempt and was demoted by the tie-break.
C1_Witness ==
  \E a \in Peers :
    /\ dpc[a] = "P1" /\ dpc[Other(a)] = "P2"
    /\ dop[Other(a)] = "demote"
    /\ conn[a] = conn[Other(a)]

\* One stream at the level of bytes: a writer, and a TcpGame that calls
\* recv_line until a call raises.
TransportInit == Init /\ rogue = 0

\* The stream while the reader keeps its socket and the writer closes at
\* most once.
TransportNext ==
  \/ \E id \in 1..Len(Texts) : SendLine(id)
  \/ \E id \in 1..Len(Texts) : SendRaw(id)
  \/ ~IsClosed(wstate) /\ WriterClose
  \/ CallRecvLine
  \/ ReturnLine
  \/ TooLong
  \/ RecvChunk
  \/ RecvEmpty
  \/ RecvLineTimeout

SpecTransport == TransportInit /\ [][TransportNext]_vars

\* The last write of the stream was cut short.
EndsPartial ==
  written # <<>> /\ written[Len(written)].via = "partial"

\* The stream of a writer that writes lines, may stop in the middle of one,
\* and closes; the reader keeps its socket.
DrainNext ==
  \/ \E id \in 1..Len(Texts) : ~EndsPartial /\ SendLine(id)
  \/ \E id \in 1..Len(Texts) : ~EndsPartial /\ SendPartial(id)
  \/ ~IsClosed(wstate) /\ WriterClose
  \/ CallRecvLine
  \/ ReturnLine
  \/ TooLong
  \/ RecvChunk
  \/ RecvEmpty
  \/ RecvLineTimeout

SpecDrain == TransportInit /\ [][DrainNext]_vars

\* The codec called on one input drawn from CodecInputs.
CodecInit ==
  /\ SessionInit
  /\ TransportIdle
  /\ rogue = 0
  /\ Matched
  /\ cin \in CodecInputs
  /\ cout = NoResult
  /\ tboard = initial
  /\ plies = 0
  /\ query = NoQuery

CodecNext ==
  \/ EncodeMove
  \/ DecodeMove
  \/ EncodeNewGame
  \/ DecodeNewGame
  \/ DecodeToken
  \/ IsToken

SpecCodec == CodecInit /\ [][CodecNext]_vars

\* The rules called on the boards reached from StartBoards.
RulesInit ==
  /\ SessionInit
  /\ TransportIdle
  /\ rogue = 0
  /\ Matched
  /\ cin = NoInput
  /\ cout = NoResult
  /\ tboard \in StartBoards
  /\ plies = 0
  /\ query = NoQuery

RulesNext ==
  \/ \E player \in {BLACK, WHITE}, rc \in Cells : Play(player, rc[1], rc[2])
  \/ \E player \in {BLACK, WHITE}, rc \in Targets :
       QueryMove(player, rc[1], rc[2])
  \/ \E player \in {BLACK, WHITE} : QueryValidMoves(player)
  \/ QueryGameOver
  \/ Return

SpecRules == RulesInit /\ [][RulesNext]_vars

\* The stream of send_line writers where either end may call close at any
\* time and any number of times.
CloseNext ==
  \/ \E id \in 1..Len(Texts) : SendLine(id)
  \/ WriterClose
  \/ ReaderClose
  \/ CallRecvLine
  \/ ReturnLine
  \/ TooLong
  \/ RecvChunk
  \/ RecvEmpty
  \/ RecvLineTimeout
  \/ RecvOSError

SpecClose == TransportInit /\ [][CloseNext]_vars

\* Both calls of discover_and_connect have returned a role.
BothReturned == \A p \in Peers : dpc[p] \in Roles

\* A call of discover_and_connect has ended by an exception, or a demoting
\* peer's connect has failed.
SomeRaised ==
  \E p \in Peers : dpc[p] = "raised" \/ dop[p] = "demote_failed"

\* C12: when both peers are in the active phase with overlapping windows and
\* each has received the other's advert, at least one of them demotes itself:
\* they never both ignore the other's advert.
C12_OneDemotes ==
  ~ \A p \in Peers : dpc[p] = "active" /\ listener[p].open /\ dop[p] = "ignore_peer"

\* p, in its active window with its listener open, takes an advert off its
\* UDP socket in this step.
ReadsAdvert(p) ==
  /\ dpc[p] = "active" /\ listener[p].open
  /\ clock[p] < my_advert_ts + WindowTicks
  /\ udpq[p] # <<>> /\ udpq'[p] = Tail(udpq[p])
  /\ dpc'[p] # "P1"

\* p's own key (T, L, G) is not after the key (arrival time, sender IP,
\* advertised port) of the advert ad, in lexicographic order.
OwnKeyNotAfter(p, ad) ==
  \/ my_advert_ts < clock[p]
  \/ my_advert_ts = clock[p] /\ str_lt(my_ip_guess[p], ad.ip)
  \/ my_advert_ts = clock[p] /\ my_ip_guess[p] = ad.ip /\ listener[p].port <= ad.port

\* In this step p closes its listener and connects to (ad.ip, ad.port), or
\* fails to connect there.
DemotesTo(p, ad) ==
  /\ ~listener'[p].open
  /\ \/ /\ dpc'[p] = "connected"
        /\ ip[conn'[p].to] = ad.ip
        /\ listener[conn'[p].to].port = ad.port
        /\ conn'[p] \in {listener'[conn'[p].to].backlog[i] :
                            i \in 1..Len(listener'[conn'[p].to].backlog)}
     \/ /\ dpc'[p] = "active"
        /\ conn'[p] = conn[p]

\* In this step p stays in its window with its listener as it was.
KeepsListening(p) ==
  /\ listener'[p] = listener[p]
  /\ dpc'[p] = "active"
  /\ conn'[p] = conn[p]

\* C13: in the active phase a peer that receives a competing advert demotes
\* itself (closes its listener and connects to the advertiser) if and only if
\* the key (arrival time, sender IP, advertised port) is strictly smaller, in
\* lexicographic order, than its own key (T, L, G); on identical keys it does
\* not demote.
C13_DemoteIffSmallerKey ==
  [][\A p \in Peers :
       ReadsAdvert(p) =>
         IF OwnKeyNotAfter(p, Head(udpq[p]))
         THEN KeepsListening(p)
         ELSE DemotesTo(p, Head(udpq[p]))]_vars

\* C13 witness: a peer has demoted itself on a smaller key and connected,
\* while the other peer has ignored an advert.
C13_Witness ==
  \E p \in Peers :
    /\ dop[p] = "demote" /\ dpc[p] = "connected"
    /\ dop[Other(p)] \in {"ignore", "ignore_peer"}

\* The numbers of a dotted address, left to right; cur is the number read so
\* far.
RECURSIVE octets_from(_, _)
octets_from(a, cur) ==
  IF a = <<>> THEN <<cur>>
  ELSE IF Head(a) = "." THEN <<cur>> \o octets_from(Tail(a), 0)
  ELSE octets_from(Tail(a), cur * 10 + DigitVal(Head(a)))

\* a is the lower IPv4 address: octet by octet, numerically.
ipv4_lt(a, b) ==
  LET oa == octets_from(a, 0)
      ob == octets_from(b, 0)
  IN  \E i \in 1..4 : oa[i] < ob[i] /\ \A j \in 1..(i - 1) : oa[j] = ob[j]

\* C14: on identical timestamps _prefer_peer prefers the advert with the lower
\* IPv4 address, addresses ordered numerically octet by octet, and on equal
\* addresses the one with the lower port.
C14_LowerAddressWins ==
  [][\A p \in Peers :
       (ReadsAdvert(p) /\ clock[p] = my_advert_ts) =>
         LET ad == Head(udpq[p])
         IN  ~listener'[p].open <=>
               \/ ipv4_lt(ad.ip, my_ip_guess[p])
               \/ ad.ip = my_ip_guess[p] /\ ad.port < listener[p].port]_vars

\* C15: a peer whose connect to the competing advertiser failed after it
\* decided to demote keeps waiting in its window on the UDP socket and on its
\* TCP listener, and discover_and_connect does not fail.
C15_KeepsWaitingAfterFailedConnect ==
  \A p \in Peers :
    dop[p] = "demote_failed" =>
      /\ dpc[p] # "raised"
      /\ dpc[p] = "active" => listener[p].open

\* C16: no socket-level error inside a discovery round makes
\* discover_and_connect fail to its caller; the caller only ever observes a
\* (role, stream) result.
C16_NoErrorEscapes == \A p \in Peers : dpc[p] # "raised"

\* A peer waiting in the passive phase has left a delivered advert unread
\* while the advertiser's clock advanced.
Stalled ==
  \E p \in Peers :
    /\ dpc[p] = "passive" /\ udpq[p] # <<>>
    /\ dpc[Other(p)] = "active" /\ clock[Other(p)] > my_advert_ts

\* A connection reached a listener whose window had just expired.
Dropped ==
  \E p \in Peers :
    /\ dpc[p] = "active" /\ clock[p] = my_advert_ts + WindowTicks
    /\ listener[p].backlog # <<>>

\* C11: when every advert is delivered and connects to open listeners
\* succeed, both peers eventually return from discover_and_connect, whatever
\* the relative timing of their rounds.  Not held against the claim are runs
\* in which an advert is lost, a call ends by an exception (the subject of
\* C15 and C16), a passive peer is slower to read an advert than a clock
\* tick, or a connection arrives as the window expires.
C11_BothEventuallyReturn ==
  <>(lost \/ SomeRaised \/ Stalled \/ Dropped \/ BothReturned)

(***************************************************************************)
(* Properties of the session driver.                                       *)
(***************************************************************************)
Honest == rogue = 0

OutcomeTokens == {YOU_WIN, YOU_LOSE, DRAW}

\* Driver d reads one line in this step.
ReadsLine(d) == IsDriver(d) /\ nrecv'[d] = nrecv[d] + 1

\* The line recv_line hands to driver d when it reads next.
NextLine(d) == recv_line(Head(chan[d]))

\* The peer of d still has its end of the stream open.
PeerOpen(d) == ~closed[Other(d)]

\* The stones of colour c on a replica.
Stones(b, c) == IF c = BLACK THEN score(b)[1] ELSE score(b)[2]

\* The token the recipient of colour c should see for replica b.
TokenAddressedTo(b, c) ==
  IF Stones(b, c) = Stones(b, opponent(c)) THEN DRAW
  ELSE IF Stones(b, c) > Stones(b, opponent(c)) THEN YOU_WIN ELSE YOU_LOSE

\* ERROR is the line appended to the input of d's peer in this step.
ErrorReachesPeer(d) == chan'[Other(d)] = Append(chan[Other(d)], ERROR)

\* d ended this step having written exactly the line ERROR, closed, status 1.
RepliesErrorAndFails(d) ==
  /\ nsent'[d] = nsent[d] + 1
  /\ lastSent'[d] = ERROR
  /\ closed'[d]
  /\ status'[d] = RET1
  /\ ErrorReachesPeer(d)

ReplicaUnchanged(d) ==
  /\ board'[d] = board[d]
  /\ to_move'[d] = to_move[d]
  /\ move_num'[d] = move_num[d]

\* C2: P1 plays Black and P2 White, Black moves first, and whenever both
\* honest drivers are at the top of their loop with no line in flight in
\* either direction, their replicas, side to move and move number agree.
C2_ReplicasAgree ==
  /\ my_color(1) = BLACK /\ my_color(2) = WHITE
  /\ \A d \in Peers : (Honest /\ nsent[1] = 0 /\ nsent[2] = 0) => to_move[d] = BLACK
  /\ (Honest /\ nsent[2] > 0) => nsent[1] > 0
  /\ (/\ Honest
      /\ status[1] = RUNNING /\ status[2] = RUNNING
      /\ chan[1] = <<>> /\ chan[2] = <<>>)
     => /\ board[1] = board[2]
        /\ to_move[1] = to_move[2]
        /\ move_num[1] = move_num[2]

\* C2 witness: both drivers running after several moves and a pass, no line
\* in flight.
C2_Witness ==
  /\ Honest
  /\ status[1] = RUNNING /\ status[2] = RUNNING
  /\ chan[1] = <<>> /\ chan[2] = <<>>
  /\ move_num[1] > 20
  /\ consecutive_passes[1] = 1
  /\ board[1] = board[2]

\* C3 (as claimed): once both honest drivers have ended, an outcome token one
\* of them sent has been received (and so verified) by the other.
C3_TokenReceivedByPeer ==
  \A d \in Peers :
    (/\ Honest
     /\ lastSent[d] \in OutcomeTokens
     /\ status[d] # RUNNING /\ status[Other(d)] # RUNNING)
    => lastRecv[Other(d)] = lastSent[d]

\* C4: a driver that reads a well-formed MOVE that is illegal for the
\* opponent colour on its replica, from a peer whose end is still open, writes
\* ERROR, closes, ends with status 1 and leaves board, to_move and move_num as
\* they were; ERROR is the next line the sender has to read.
C4_Case(d) ==
  /\ NextLine(d).utf8
  /\ decode_move(NextLine(d).line).ok
  /\ flips_for_move(board[d], opp_color(d), decode_move(NextLine(d).line).row,
                    decode_move(NextLine(d).line).col) = {}
  /\ PeerOpen(d)

C4_IllegalMoveRejected ==
  [][\A d \in Peers :
       (ReadsLine(d) /\ C4_Case(d)) => (RepliesErrorAndFails(d) /\ ReplicaUnchanged(d))]_vars

\* C4 witness: a driver ended with status 1 on MOVE:4,4 (an occupied cell),
\* replica still the initial board, and the sender has read ERROR.
C4_Witness ==
  \E d \in Peers :
    /\ IsDriver(d)
    /\ lastRecv[d] = MOVE \o <<":", "4", ",", "4">>
    /\ status[d] = RET1 /\ closed[d]
    /\ lastSent[d] = ERROR
    /\ board[d] = initial
    /\ lastRecv[Other(d)] = ERROR

\* C5 (as claimed): every line read on the peer's turn that is neither PASS,
\* an outcome token, ERROR nor a well-formed in-range MOVE makes the driver
\* write ERROR, close and end with status 1.
C5_Case(d) ==
  /\ PeerOpen(d)
  /\ \/ ~NextLine(d).utf8
     \/ /\ NextLine(d).line \notin {PASS, YOU_WIN, YOU_LOSE, DRAW, ERROR}
        /\ ~decode_move(NextLine(d).line).ok

C5_MalformedRejected ==
  [][\A d \in Peers : (ReadsLine(d) /\ C5_Case(d)) => RepliesErrorAndFails(d)]_vars

\* C6: a driver that reads an outcome token consistent with the score of its
\* replica for its own colour announces the score, closes and ends with
\* status 0 having written nothing; on an inconsistent token from a peer whose
\* end is still open it writes ERROR, closes and ends with status 1, and ERROR
\* is the next line the sender has to read.
C6_OutcomeTokenChecked ==
  [][\A d \in Peers :
       (ReadsLine(d) /\ NextLine(d).utf8 /\ NextLine(d).line \in OutcomeTokens)
       => IF NextLine(d).line = TokenAddressedTo(board[d], my_color(d))
          THEN /\ nsent'[d] = nsent[d]
               /\ announced'[d] = score(board[d])
               /\ closed'[d]
               /\ status'[d] = RET0
          ELSE PeerOpen(d) => RepliesErrorAndFails(d)]_vars

\* C6 witness: a driver playing Black that has moved once (score 4-1) read
\* the false token YOU LOSE, ended with status 1, and the sender read ERROR.
C6_Witness ==
  \E d \in Peers :
    /\ IsDriver(d)
    /\ lastRecv[d] = YOU_LOSE
    /\ score(board[d]) = <<4, 1>> /\ my_color(d) = BLACK
    /\ status[d] = RET1 /\ closed[d]
    /\ lastSent[d] = ERROR
    /\ lastRecv[Other(d)] = ERROR

\* C7 (as claimed): a driver that reads ERROR closes and ends with status 1
\* without writing any line.
C7_ErrorNotAnswered ==
  [][\A d \in Peers :
       (ReadsLine(d) /\ NextLine(d).utf8 /\ NextLine(d).line = ERROR)
       => /\ nsent'[d] = nsent[d]
          /\ closed'[d]
          /\ status'[d] = RET1]_vars

\* C8: in a session of two honest drivers, a driver that has ended on a
\* terminal replica has written the outcome token addressed to its peer as
\* its last line, announced the score of its replica, closed and ended with
\* status 0; when both have ended so, they announced the same score.
C8_TerminalExchange ==
  Honest =>
    /\ \A d \in Peers :
         (status[d] # RUNNING /\ is_game_over(board[d]))
         => /\ status[d] = RET0
            /\ closed[d]
            /\ lastSent[d] = TokenAddressedTo(board[d], opp_color(d))
            /\ announced[d] = score(board[d])
    /\ (\A d \in Peers : status[d] # RUNNING /\ is_game_over(board[d]))
       => announced[1] = announced[2]

\* C8 witness: both honest drivers ended with status 0 on a full board that
\* Black lost, the second token written to a peer that had already closed.
C8_Witness ==
  /\ Honest
  /\ \A d \in Peers : status[d] = RET0 /\ lastOp[d] = "finish"
  /\ counts(board[1])[3] = 0
  /\ lastSent[1] = YOU_WIN /\ lastSent[2] = YOU_LOSE
  /\ \E d \in Peers : rst[d]

Colours == {BLACK, WHITE}

\* C17: for every replica B a session reaches and every colour C,
\* verify_peer_outcome(B, opposite(C), outcome_token_for(B, C)) is true: the
\* token one side computes for its peer is accepted by the peer on an equal
\* replica.
C17_TokenAcceptedByPeer ==
  \A d \in Peers, c \in Colours :
    verify_peer_outcome(board[d], opponent(c), outcome_token_for(board[d], c))

\* C17 witness: an honest driver ended a decided game by writing the token
\* outcome_token_for gives for its colour, and the token passes the peer's
\* check on the peer's replica.
C17_Witness ==
  \E d \in Peers :
    /\ Honest /\ lastOp[d] = "finish"
    /\ score(board[d])[1] # score(board[d])[2]
    /\ lastSent[d] = outcome_token_for(board[d], my_color(d))
    /\ verify_peer_outcome(board[Other(d)], my_color(Other(d)), lastSent[d])

\* C18: on a board with score (b, w), for receiver colour R and token T,
\* verify_peer_outcome is true exactly when T = DRAW and b = w, or
\* T = YOU WIN and R's count is strictly higher, or T = YOU LOSE and R's count
\* is strictly lower; so exactly one of the three tokens is accepted.
C18_VerifyExactCases ==
  \A d \in Peers, R \in Colours :
    LET mine == Stones(board[d], R)
        theirs == Stones(board[d], opponent(R))
        accepted == {T \in OutcomeTokens : verify_peer_outcome(board[d], R, T)}
    IN  /\ \A T \in OutcomeTokens :
             T \in accepted <=>
               \/ T = DRAW /\ mine = theirs
               \/ T = YOU_WIN /\ mine > theirs
               \/ T = YOU_LOSE /\ mine < theirs
        /\ Cardinality(accepted) = 1

\* C18 witness: a driver read DRAW on a replica with equal counts and
\* accepted it, ending with status 0.
C18_Witness ==
  \E d \in Peers :
    /\ IsDriver(d)
    /\ lastRecv[d] = DRAW
    /\ score(board[d])[1] = score(board[d])[2]
    /\ status[d] = RET0 /\ closed[d]

\* C9 (as claimed): a driver whose write of MOVE, PASS or an outcome token
\* failed, or whose read failed, has closed and ended with status 1.
C9_TransportFailureReturns1 ==
  \A d \in Peers :
    (/\ IsDriver(d)
     /\ status[d] # RUNNING
     /\ \/ lastOp[d] \in {"eof", "timeout"}
        \/ wfail[d] /\ lastOp[d] \in {"move", "pass", "finish"})
    => (closed[d] /\ status[d] = RET1)

\* C10 (as claimed): the step in which the UI signals quit leaves the
\* replica as it was, writes no line other than ERROR, closes, and ends with
\* a status that is neither 0 (the status of a completed game) nor an
\* exception.
C10_QuitDistinguishable ==
  [][\A d \in Peers :
       (IsDriver(d) /\ lastOp[d] # "quit" /\ lastOp'[d] = "quit")
       => /\ ReplicaUnchanged(d)
          /\ nsent'[d] = nsent[d] \/ lastSent'[d] = ERROR
          /\ closed'[d]
          /\ status'[d] = RET1]_vars

\* Driver d writes PASS in this step (alone, or followed by its outcome
\* token).
WritesPass(d) ==
  /\ IsDriver(d)
  /\ \/ nsent'[d] = nsent[d] + 1 /\ lastSent'[d] = PASS
     \/ nsent'[d] = nsent[d] + 2

\* Driver d writes a MOVE line in this step.
WritesMove(d) ==
  /\ IsDriver(d)
  /\ nsent'[d] = nsent[d] + 1
  /\ startswith(lastSent'[d], MOVE \o <<":">>)

\* C32: a driver writes PASS only when the side to move is its own colour
\* and that colour has no legal move on its replica, and writes MOVE:r,c only
\* when the side to move is its own colour and (r,c) is a legal move for that
\* colour on the replica as it was before the move.
C32_SendsOnlyOnOwnTurn ==
  [][\A d \in Peers :
       /\ WritesPass(d) =>
            /\ to_move[d] = my_color(d)
            /\ \A rc \in Cells : ~Legal(board[d], my_color(d), rc[1], rc[2])
       /\ WritesMove(d) =>
            /\ to_move[d] = my_color(d)
            /\ decode_move(lastSent'[d]).ok
            /\ Legal(board[d], my_color(d), decode_move(lastSent'[d]).row,
                     decode_move(lastSent'[d]).col)]_vars

\* A driver has written PASS and handed over the turn.
C32_Witness ==
  \E d \in Peers :
    /\ IsDriver(d)
    /\ lastOp[d] = "pass"
    /\ lastSent[d] = PASS
    /\ status[d] = RUNNING
    /\ to_move[d] = opp_color(d)

\* A driver has written a MOVE line.
C32_WitnessMove ==
  \E d \in Peers :
    /\ IsDriver(d)
    /\ lastOp[d] = "move"
    /\ startswith(lastSent[d], MOVE \o <<":">>)
    /\ to_move[d] = opp_color(d)

\* C33 (as claimed): a driver that reads PASS while the opponent colour has
\* a legal move on its replica treats it as a protocol violation: it writes
\* ERROR, ends with a non-zero status and does not take the turn.
C33_PassOnlyWhenForced ==
  [][\A d \in Peers :
       (/\ ReadsLine(d)
        /\ NextLine(d).utf8
        /\ NextLine(d).line = PASS
        /\ \E rc \in Cells : Legal(board[d], opp_color(d), rc[1], rc[2]))
       => /\ status'[d] \notin {RUNNING, RET0}
          /\ lastSent'[d] = ERROR
          /\ to_move'[d] = to_move[d]]_vars

\* Driver d applies a move to its replica in this step.
AppliesMove(d) == IsDriver(d) /\ board'[d] # board[d]

\* Driver d reads the line PASS in this step.
ReadsPass(d) ==
  ReadsLine(d) /\ NextLine(d).utf8 /\ NextLine(d).line = PASS

\* move_num of every driver is the number of stones on its replica minus 3.
MoveNumCountsStones ==
  \A d \in Peers :
    IsDriver(d) =>
      move_num[d] = Stones(board[d], BLACK) + Stones(board[d], WHITE) - 3

C34_WitnessMove ==
  \E d \in Peers :
    /\ IsDriver(d)
    /\ lastOp[d] = "recv"
    /\ startswith(lastRecv[d], MOVE \o <<":">>)
    /\ lastSent[d] = PASS
    /\ consecutive_passes[d] = 0
    /\ to_move[d] = my_color(d)

(***************************************************************************)
(* Properties of a stream that the writer closes.                          *)
(***************************************************************************)
\* The complete lines written, in order.
CompleteLines == SelectSeq(written, LAMBDA w : w.via # "partial")

\* C35: a complete line written before the writer closed is still returned
\* by recv_line: the closed-peer ProtocolError is raised only when no
\* complete line is left in the buffer or in the stream, after every complete
\* line has been returned in order; bytes written without a terminator are
\* never returned as a line.
C35_LinesBeforeCloseReturned ==
  /\ Len(returned) <= Len(CompleteLines)
  /\ \A i \in 1..Len(returned) : returned[i] = CompleteLines[i].id
  /\ rpc = "closed" =>
       /\ find(rbuf, LF) = 0
       /\ inflight = <<>>
       /\ Len(returned) = Len(CompleteLines)

\* The writer wrote a line and part of another and closed; recv_line has
\* returned the line and then reported the closed peer, the partial line
\* left in its buffer.
C35_Witness ==
  /\ Len(written) = 2
  /\ written[1].via = "send_line"
  /\ written[2].via = "partial"
  /\ IsClosed(wstate)
  /\ returned = <<written[1].id>>
  /\ rpc = "closed"
  /\ size(rbuf) > 0

(***************************************************************************)
(* Properties of the connection a demoted or passive peer makes.           *)
(***************************************************************************)
\* The connection c waits in the backlog of the open listener of q.
InBacklog(q, c) ==
  /\ listener[q].open
  /\ \E i \in 1..Len(listener[q].backlog) : listener[q].backlog[i] = c

\* C36 (as claimed): when a peer has returned P2, the peer whose advert it
\* answered has returned P1 with the accepted end of the same connection, or
\* still has that connection waiting on its open listener; the listener is
\* never closed (window expiry, demotion) with the connection not accepted.
C36_P2HasItsP1 ==
  \A p \in Peers :
    dpc[p] = "P2" =>
      \/ dpc[conn[p].to] = "P1" /\ conn[conn[p].to] = conn[p]
      \/ InBacklog(conn[p].to, conn[p])

(***************************************************************************)
(* Properties of a session of two honest drivers without quit or fault.    *)
(***************************************************************************)
\* The moves applied to a replica so far.
AppliedMoves(d) == Stones(board[d], BLACK) + Stones(board[d], WHITE) - 4

\* C37: a session of two honest drivers whose UI always chooses a move and
\* whose transport does not fail terminates: the drivers are never both
\* waiting in recv_line with no line in flight, no driver waits for a peer
\* that has closed, every applied move lowers the number of Empty cells of
\* the replica, no replica sees more than 60 moves, and both drivers return.
C37_SessionTerminates ==
  /\ [](~(WaitsForLine(1) /\ WaitsForLine(2)))
  /\ [](\A d \in Peers : WaitsForLine(d) => ~closed[Other(d)])
  /\ [](\A d \in Peers : AppliedMoves(d) <= 60)
  /\ [][\A d \in Peers :
          AppliesMove(d) => counts(board'[d])[3] < counts(board[d])[3]]_vars
  /\ <>[](\A d \in Peers : status[d] # RUNNING)

\* Both drivers have returned after a game with a pass in it.
C37_Witness ==
  /\ \A d \in Peers : status[d] = RET0 /\ is_game_over(board[d])
  /\ \E d \in Peers : consecutive_passes[d] = 0 /\ AppliedMoves(d) > 20
  /\ board[1] = board[2]

\* Driver d reads a MOVE line.
ReadsMove(d) ==
  /\ IsDriver(d)
  /\ nrecv'[d] = nrecv[d] + 1
  /\ startswith(lastRecv'[d], MOVE \o <<":">>)

\* No ERROR line is in flight or was the last line written by a driver.
NoErrorLine ==
  \A d \in Peers :
    /\ lastSent[d] # ERROR
    /\ \A i \in 1..Len(chan[d]) : chan[d][i] # ERROR

\* C38: in a session of two honest drivers in which no user quits and the
\* transport does not fail, no ERROR line is ever sent, every MOVE line a
\* driver reads is applied to its replica, which then equals the replica of
\* the sender, and no driver ends otherwise than by returning 0.
C38_NoErrorInHonestSession ==
  /\ [](NoErrorLine /\ \A d \in Peers : status[d] \in {RUNNING, RET0})
  /\ [][\A d \in Peers :
          ReadsMove(d) => /\ status'[d] = RUNNING
                          /\ board'[d] # board[d]
                          /\ board'[d] = board[Other(d)]
                          /\ move_num'[d] = move_num[d] + 1]_vars

\* Both drivers have returned 0, each after reading more than ten lines of
\* the peer, the last of them a MOVE.
C38_Witness ==
  /\ \A d \in Peers : status[d] = RET0 /\ nrecv[d] > 10
  /\ \E d \in Peers : startswith(lastRecv[d], MOVE \o <<":">>)
  /\ NoErrorLine

\* C39: in a session of two honest drivers the counter of consecutive passes
\* never reaches 2: PASS is written only on a board that is not terminal, so
\* the reader of a PASS has a move, the session goes on with both counters
\* at 1, every applied move sets the counter back to 0, and every driver
\* that ends has ended in the terminal-board check of the loop.
C39_PassCounterBelowTwo ==
  /\ [](\A d \in Peers : consecutive_passes[d] < 2)
  /\ [](\A d \in Peers :
          status[d] # RUNNING => lastOp[d] = "finish" /\ is_game_over(board[d]))
  /\ [][\A d \in Peers :
          WritesPass(d) => /\ ~is_game_over(board[d])
                           /\ has_any_move(board[d], opp_color(d))
                           /\ status'[d] = RUNNING
                           /\ consecutive_passes'[d] = 1]_vars
  /\ [][\A d \in Peers :
          ReadsPass(d) => /\ has_any_move(board[d], my_color(d))
                          /\ status'[d] = RUNNING
                          /\ to_move'[d] = my_color(d)
                          /\ consecutive_passes'[d] = 1]_vars
  /\ [][\A d \in Peers : AppliesMove(d) => consecutive_passes'[d] = 0]_vars

\* A driver has read PASS and moved, which set its counter back to 0; the
\* counter of the driver that passed is still 1.
C39_Witness ==
  \E d \in Peers :
    /\ lastRecv[d] = PASS
    /\ lastOp[d] = "move"
    /\ consecutive_passes[d] = 0
    /\ consecutive_passes[Other(d)] = 1
    /\ status[d] = RUNNING

(***************************************************************************)
(* Properties of the stream at the end of run_network_game.                *)
(***************************************************************************)
\* C40: whenever run_network_game has returned or raised, the driver has
\* closed its stream, whichever way the session ended (game end, quit,
\* protocol violation, outcome mismatch, receive failure, send failure, or
\* an exception that escapes); a stream that was closed holds no unread
\* input.
C40_StreamClosedAtExit ==
  \A d \in Peers :
    IsDriver(d) =>
      /\ status[d] # RUNNING => closed[d]
      /\ closed[d] => chan[d] = <<>>

\* A send has failed at a driver, ProtocolError has escaped from
\* run_network_game, and the stream is closed.
C40_Witness ==
  \E d \in Peers :
    /\ IsDriver(d)
    /\ status[d] = RAISED_PROTOCOL
    /\ wfail[d]
    /\ closed[d]
====
